---- MODULE Spec2Model ----
(***************************************************************************)
(* A model of the smart-money scoring pipeline of autostock:               *)
(*   pipeline/02_analyze_volume.py      VolumeAnalyzer                      *)
(*   pipeline/03_analyze_13f.py         SEC13FAnalyzer                      *)
(*   pipeline/smart_money_screener_v2.py EnhancedSmartMoneyScreener         *)
(*   pipeline/final_report_generator.py FinalReportGenerator                *)
(*                                                                         *)
(* Units.  Scores are Python numbers.  A sub-score is an integer 0..100.   *)
(* A Python float is modelled exactly as a pair [h, e]: its value is       *)
(*      h/100 + e/(100 * 2^56)                                              *)
(* h is the decimal value in hundredths that the float stands for and e is *)
(* the (tiny, signed) binary representation error.  Every double the       *)
(* composite computation meets is a multiple of 2^-56, so h*2^56 + e is a   *)
(* multiple of 100 for each of them, and IEEE-754 round-to-nearest-even is *)
(* computed on the pair with small integers only.  A value rounded to one  *)
(* decimal (round(x, 1)) is kept in tenths: composite_score 592 is 59.2.   *)
(***************************************************************************)
EXTENDS Integers, Sequences, FiniteSets, TLC

VARIABLES
    \* calculate_composite_score applied as a pure function
    g_in, g_out, g_prev,
    \* one scorer applied as a pure function
    sc_kind, sc_out,
    \* EnhancedSmartMoneyScreener: the loaded tables, the benchmark (its
    \* number of rows, -1 for None),
    \* the position in run_screening, the pre-filtered rows, the results;
    \* fetch_log records what each enrichment call was given
    volume_df, holdings_df, spy_data, s_pc, filtered, s_i, results, fetch_log,
    \* VolumeAnalyzer.run: the rows of each ticker in the prices file, the
    \* position in run, the results list, the written CSV
    price_rows, v_pc, v_i, v_results, v_csv,
    \* calculate_ai_score applied as a pure function
    ai_in, ai_out,
    \* FinalReportGenerator: the rows of smart_money_picks_v2.csv, the AI
    \* summaries by ticker, the argument of generate_report, its position,
    \* the loaded table, the loop index, the results list, the returned list
    quant_file, ai_data, top_n, r_pc, r_df, r_i, r_results, top_picks,
    \* AIStockAnalyzer.run: whether GOOGLE_API_KEY is set, the rows of
    \* smart_money_picks_v2.csv, the content of ai_summaries.json (a list of
    \* (ticker, entry) pairs in the order of the JSON object), the arguments
    \* of run, its position, the loaded picks, the loop index, the results
    \* dictionary, the number of the run (the clock of 'updated'), the
    \* tickers generate was called for, the store when the run began
    api_key, picks_file, summaries_file, a_args, a_pc, a_df, a_i, a_results,
    a_clock, a_calls, a_before,
    \* the pipeline of update_all.py: the files of the data directory, the
    \* number of script runs so far, what the last run did, and which
    \* script has read and written which file so far
    fs, p_clock, p_last, p_reads, p_writes,
    \* the screener run twice: the number of the run, what the first run
    \* returned, what its enrichment calls fetched, the order the sort
    \* routine leaves equal scores in
    rr_run, rr_prev, rr_data, rr_sort,
    \* a record of the screener, its row in smart_money_picks_v2.csv, the row
    \* read back by the final report generator
    csv_rec, csv_file, csv_back,
    \* one pass of the AI summary loop and the scoring of its entry: what the
    \* Gemini calls meet, the entry stored, the score the final report
    \* derives from it
    gen_call, gen_entry, gen_score,
    \* SEC13FAnalyzer.analyze_institutional_changes: what the fetches of each
    \* ticker meet, the position in the loop, the loop index, the results
    \* list, the tickers fetched so far
    i_fetch, i_pc, i_i, i_results, i_log,
    \* the indicators of VolumeAnalyzer applied as pure functions: the rows
    \* given, what the computation ended with
    ind_in, ind_out,
    \* update_all.main: the command line, the selected scripts, the position
    \* in main, the loop index, the child processes alive, the two tallies,
    \* the start and end of every child, the value main returned
    u_args, scripts_to_run, u_pc, u_i, u_running, success_count, failed_scripts, u_log, u_exit,
    \* and how the last run_script call ended
    u_last,
    \* one call of a function wrapped by retry_with_backoff: the decorator's
    \* arguments and what each attempt of func meets, the position in the
    \* wrapper, the loop variable, the exception caught last, the number of
    \* calls of func, the sleeps taken, how the wrapper ended
    rt_cfg, rt_pc, attempt, last_exception, rt_calls, rt_sleeps, rt_out,
    \* RateLimiter.wait_if_needed: max_calls and period, the clock, self.calls,
    \* the position in wait_if_needed, its local now, the times of the calls
    \* admitted so far, the sleep of the call in progress
    rl_cfg, rl_clock, rl_calls, rl_pc, rl_now, rl_admitted, rl_slept

gradeVars == <<g_in, g_out, g_prev>>

scoreVars == <<sc_kind, sc_out>>

screenVars == <<volume_df, holdings_df, spy_data, s_pc, filtered, s_i, results, fetch_log>>

volumeVars == <<price_rows, v_pc, v_i, v_results, v_csv>>

aiVars == <<ai_in, ai_out>>

reportVars == <<quant_file, ai_data, top_n, r_pc, r_df, r_i, r_results, top_picks>>

aiRunVars ==
    <<api_key, picks_file, summaries_file, a_args, a_pc, a_df, a_i, a_results,
      a_clock, a_calls, a_before>>

baseVars == <<gradeVars, scoreVars, screenVars, volumeVars, aiVars, reportVars>>

pipeVars == <<fs, p_clock, p_last, p_reads, p_writes>>

rerunVars == <<rr_run, rr_prev, rr_data, rr_sort>>

csvVars == <<csv_rec, csv_file, csv_back>>

genVars == <<gen_call, gen_entry, gen_score>>

instVars == <<i_fetch, i_pc, i_i, i_results, i_log>>

extVars == <<aiRunVars, pipeVars, rerunVars, csvVars, genVars, instVars>>

indVars == <<ind_in, ind_out>>

driverVars ==
    <<u_args, scripts_to_run, u_pc, u_i, u_running, success_count, failed_scripts,
      u_log, u_exit, u_last>>

retryVars == <<rt_cfg, rt_pc, attempt, last_exception, rt_calls, rt_sleeps, rt_out>>

limiterVars == <<rl_cfg, rl_clock, rl_calls, rl_pc, rl_now, rl_admitted, rl_slept>>

lateVars == <<indVars, driverVars, retryVars, limiterVars>>

vars == <<baseVars, extVars, lateVars>>

\* what each specification leaves alone
notGrade == <<scoreVars, screenVars, volumeVars, aiVars, reportVars, extVars, lateVars>>

notScore == <<gradeVars, screenVars, volumeVars, aiVars, reportVars, extVars, lateVars>>

notScreen == <<gradeVars, scoreVars, volumeVars, aiVars, reportVars, extVars, lateVars>>

notVolume == <<gradeVars, scoreVars, screenVars, aiVars, reportVars, extVars, lateVars>>

notAI == <<gradeVars, scoreVars, screenVars, volumeVars, reportVars, extVars, lateVars>>

notReport == <<gradeVars, scoreVars, screenVars, volumeVars, aiVars, extVars, lateVars>>

notAIRun == <<baseVars, pipeVars, rerunVars, csvVars, genVars, instVars, lateVars>>

notPipe == <<baseVars, aiRunVars, rerunVars, csvVars, genVars, instVars, lateVars>>

\* the second run works on the variables of the screener
notRerun == <<gradeVars, scoreVars, volumeVars, aiVars, reportVars,
              aiRunVars, pipeVars, csvVars, genVars, instVars, lateVars>>

notCsv == <<baseVars, aiRunVars, pipeVars, rerunVars, genVars, instVars, lateVars>>

notGen == <<baseVars, aiRunVars, pipeVars, rerunVars, csvVars, instVars, lateVars>>

notInd == <<baseVars, extVars, driverVars, retryVars, limiterVars>>

notDriver == <<baseVars, extVars, indVars, retryVars, limiterVars>>

notRetry == <<baseVars, extVars, indVars, driverVars, limiterVars>>

notLimiter == <<baseVars, extVars, indVars, driverVars, retryVars>>

notInst == <<baseVars, aiRunVars, pipeVars, rerunVars, csvVars, genVars, lateVars>>

(***************************************************************************)
(* Small helpers                                                           *)
(***************************************************************************)
Max(a, b) == IF a >= b THEN a ELSE b

Min(a, b) == IF a <= b THEN a ELSE b

\* max(0, min(100, x)) as every scorer writes it
Clamp100(x) == Max(0, Min(100, x))

\* 2^n for n in 0..13
Pow2Table == <<1, 2, 4, 8, 16, 32, 64, 128, 256, 512, 1024, 2048, 4096, 8192>>

Pow2(n) == Pow2Table[n + 1]

\* 2^n mod 25 for n in 0..19; the powers of 2 repeat mod 25 with period 20
Pow2Mod25Table ==
    <<1, 2, 4, 8, 16, 7, 14, 3, 6, 12, 24, 23, 21, 17, 9, 18, 11, 22, 19, 13>>

Pow2Mod25(n) == Pow2Mod25Table[(n % 20) + 1]

(***************************************************************************)
(* IEEE-754 binary64 arithmetic on pairs [h, e]                            *)
(***************************************************************************)
\* e counts units of 1/(100 * 2^56).  A double has 53 significant bits: in
\* the binade [2^j, 2^(j+1)) the spacing of doubles is 2^(j-52), which is
\* 2^k units of 2^-56 with k = j + 4, or 100 * 2^k units of e.

Fl(h, e) == [h |-> h, e |-> e]

\* value >= 2^j, for j in -4..6 (|e| is far below 2^56)
FGePow2(h, e, j) ==
    IF j >= 0
    THEN h > 100 * Pow2(j) \/ (h = 100 * Pow2(j) /\ e >= 0)
    ELSE h * Pow2(-j) > 100 \/ (h * Pow2(-j) = 100 /\ e >= 0)

\* the binade of a positive value below 128
Binade(h, e) ==
    IF FGePow2(h, e, 6) THEN 6
    ELSE IF FGePow2(h, e, 5) THEN 5
    ELSE IF FGePow2(h, e, 4) THEN 4
    ELSE IF FGePow2(h, e, 3) THEN 3
    ELSE IF FGePow2(h, e, 2) THEN 2
    ELSE IF FGePow2(h, e, 1) THEN 1
    ELSE IF FGePow2(h, e, 0) THEN 0
    ELSE IF FGePow2(h, e, -1) THEN -1
    ELSE IF FGePow2(h, e, -2) THEN -2
    ELSE IF FGePow2(h, e, -3) THEN -3
    ELSE -4

\* (h * 2^56 + e) mod (100 * 2^k), with h * 2^56 reduced through 2^n mod 25
ModGrid(h, e, k) ==
    (Pow2(k + 2) * ((h * Pow2Mod25(54 - k)) % 25) + e) % (100 * Pow2(k))

\* the double nearest to the exact value h/100 + e/(100 * 2^56), ties to
\* even, with the value's spacing 100 * 2^k and remainder r on that grid
RoundOnGrid(h, e, k, r) ==
    IF 2 * r < 100 * Pow2(k) THEN Fl(h, e - r)
    ELSE IF 2 * r > 100 * Pow2(k) THEN Fl(h, e - r + 100 * Pow2(k))
    ELSE IF ModGrid(h, e, k + 1) < 100 * Pow2(k) THEN Fl(h, e - r)
    ELSE Fl(h, e - r + 100 * Pow2(k))

\* round the exact value x = <<h, e>> to the nearest double (a function, so
\* that its argument is a value computed once)
RoundExact[x \in Int \X Int] ==
    IF x[1] = 0 /\ x[2] = 0 THEN Fl(0, 0)
    ELSE RoundOnGrid(x[1], x[2], Binade(x[1], x[2]) + 4,
                     ModGrid(x[1], x[2], Binade(x[1], x[2]) + 4))

RoundDouble(h, e) == RoundExact[<<h, e>>]

\* a decimal literal with h hundredths (0.25 is FLit(25))
FLit(h) == RoundDouble(h, 0)

\* int * float
FMulInt(n, w) == RoundDouble(n * w.h, n * w.e)

\* float + float
Floats == [h : Int, e : Int]

FAddExact[x \in Floats \X Floats] ==
    RoundExact[<<x[1].h + x[2].h, x[1].e + x[2].e>>]

FAdd(a, b) == FAddExact[<<a, b>>]

\* float >= integer n
FGeInt(x, n) == x.h > 100 * n \/ (x.h = 100 * n /\ x.e >= 0)

\* float <= float
FLeq(x, y) == x.h < y.h \/ (x.h = y.h /\ x.e <= y.e)

\* round(x, 1) with an exact tie going up
PyRound1_half_up(x) == IF x.h % 10 >= 5 THEN x.h \div 10 + 1 ELSE x.h \div 10

\* Python's round(x, 1), in tenths: the decimal nearest to the exact binary
\* value, an exact tie going to the even digit
PyRound1(x) ==
    LET q == x.h \div 10
        r == x.h % 10
    IN  IF r < 5 THEN q
        ELSE IF r > 5 THEN q + 1
        ELSE IF x.e > 0 THEN q + 1
        ELSE IF x.e < 0 THEN q
        ELSE IF q % 2 = 0 THEN q ELSE q + 1

(***************************************************************************)
(* VolumeAnalyzer.analyze_supply_demand                                    *)
(* The indicators are taken as computed: obv_change and ad_change in       *)
(* percent, vol_ratio in hundredths (150 is 1.5), mfi in points.           *)
(***************************************************************************)
\* analyze_supply_demand returns None below this many rows, and run skips
MIN_ROWS == 30

\* base 50 plus the four banded contributions, before the clamp
SupplyDemandRaw(ind) ==
    50
    + (IF ind.obv_change > 10 THEN 15
       ELSE IF ind.obv_change > 5 THEN 10
       ELSE IF ind.obv_change < -10 THEN -15
       ELSE IF ind.obv_change < -5 THEN -10
       ELSE 0)
    + (IF ind.ad_change > 10 THEN 15
       ELSE IF ind.ad_change > 5 THEN 10
       ELSE IF ind.ad_change < -10 THEN -15
       ELSE IF ind.ad_change < -5 THEN -10
       ELSE 0)
    + (IF ind.vol_ratio > 150 THEN 10
       ELSE IF ind.vol_ratio > 120 THEN 5
       ELSE IF ind.vol_ratio < 70 THEN -5
       ELSE 0)
    + (IF ind.mfi > 70 THEN 5
       ELSE IF ind.mfi < 30 THEN -5
       ELSE 0)

SupplyDemandScore(ind) == Clamp100(SupplyDemandRaw(ind))

SupplyDemandStage(score) ==
    IF score >= 70 THEN "Strong Accumulation"
    ELSE IF score >= 55 THEN "Accumulation"
    ELSE IF score >= 45 THEN "Neutral"
    ELSE IF score >= 30 THEN "Distribution"
    ELSE "Strong Distribution"

\* Optional[Dict]: none is TRUE for the None of a short history
analyze_supply_demand(rows, ind) ==
    IF rows < MIN_ROWS
    THEN [none |-> TRUE]
    ELSE [none |-> FALSE,
          obv_change_20d |-> ind.obv_change,
          ad_change_20d |-> ind.ad_change,
          mfi |-> ind.mfi,
          vol_ratio_5d_20d |-> ind.vol_ratio,
          supply_demand_score |-> SupplyDemandScore(ind),
          supply_demand_stage |-> SupplyDemandStage(SupplyDemandScore(ind))]

\* the body of run's loop with a default record for a short history
VolumeLoopBody_default_on_short(ticker, rows, ind) ==
    <<[ticker |-> ticker, name |-> ticker,
       supply_demand_score |-> (IF rows < MIN_ROWS THEN 0
                                ELSE SupplyDemandScore(ind))]>>

\* the body of run's loop for one ticker of the prices file: what it
\* appends to results (name is the ticker on a file without a name column)
VolumeLoopBody(ticker, rows, ind) ==
    IF rows < MIN_ROWS THEN <<>>
    ELSE IF analyze_supply_demand(rows, ind).none THEN <<>>
    ELSE <<[ticker |-> ticker, name |-> ticker,
            supply_demand_score |->
                analyze_supply_demand(rows, ind).supply_demand_score]>>

(***************************************************************************)
(* SEC13FAnalyzer.analyze_institutional_changes: the score of one ticker   *)
(* inst_pct and short_pct in percent (80 is 0.8, 3 is 0.03).               *)
(***************************************************************************)
InstitutionalRaw(info) ==
    50
    + (IF info.inst_pct > 80 THEN 15
       ELSE IF info.inst_pct > 60 THEN 10
       ELSE IF info.inst_pct < 30 THEN -10
       ELSE 0)
    + (IF info.buys > info.sells THEN 15
       ELSE IF info.sells > info.buys THEN -10
       ELSE 0)
    + (IF info.short_pct < 3 THEN 5
       ELSE IF info.short_pct > 10 THEN -10
       ELSE IF info.short_pct > 20 THEN -20
       ELSE 0)

InstitutionalScore(info) == Clamp100(InstitutionalRaw(info))

InstitutionalStage(score) ==
    IF score >= 70 THEN "Strong Institutional Support"
    ELSE IF score >= 55 THEN "Institutional Support"
    ELSE IF score >= 45 THEN "Neutral"
    ELSE IF score >= 30 THEN "Institutional Concern"
    ELSE "Strong Institutional Selling"

\* the dict appended for one ticker
InstitutionalRecord(ticker, info) ==
    [ticker |-> ticker,
     institutional_pct |-> info.inst_pct,
     short_pct |-> info.short_pct,
     insider_buys |-> info.buys,
     insider_sells |-> info.sells,
     institutional_score |-> InstitutionalScore(info),
     institutional_stage |-> InstitutionalStage(InstitutionalScore(info))]

(***************************************************************************)
(* EnhancedSmartMoneyScreener: the four enrichments of one ticker          *)
(* A fetch is a record of what the data source returned; raises is TRUE    *)
(* when the call throws.  A getter's result is [exc, val]: exc is TRUE     *)
(* when an exception leaves the getter.                                    *)
(***************************************************************************)
Returned(val) == [exc |-> FALSE, val |-> val]

\* a field that holds a number or the placeholder 'N/A'
NA == [na |-> TRUE, num |-> 0]

Num(n) == [na |-> FALSE, num |-> n]

Thrown == [exc |-> TRUE, val |-> [technical_score |-> 0]]

\* ---- get_technical_analysis ----
MIN_TECH_ROWS == 50

CROSS_ROWS == 200

default_technical ==
    [rsi |-> 50, macd_histogram |-> 0, ma20 |-> 0, ma50 |-> 0, ma200 |-> 0,
     ma_signal |-> "Unknown", cross_signal |-> "None", technical_score |-> 50]

\* ma200 is ma50 on fewer than 200 rows
Ma200Of(h) == IF h.rows >= CROSS_ROWS THEN h.ma200 ELSE h.ma50

\* the values five rows earlier; on fewer than 200 rows they are today's,
\* and the 200-day one needs 205 rows
Ma50PrevOf(h) == IF h.rows >= CROSS_ROWS THEN h.ma50_prev ELSE h.ma50

Ma200PrevOf(h) ==
    IF h.rows >= CROSS_ROWS + 5 THEN h.ma200_prev ELSE Ma200Of(h)

MaSignal(h) ==
    IF h.price > h.ma20 /\ h.ma20 > h.ma50 THEN "Bullish"
    ELSE IF h.price < h.ma20 /\ h.ma20 < h.ma50 THEN "Bearish"
    ELSE "Neutral"

CrossSignal(h) ==
    IF h.ma50 > Ma200Of(h) /\ Ma50PrevOf(h) <= Ma200PrevOf(h) THEN "Golden Cross"
    ELSE IF h.ma50 < Ma200Of(h) /\ Ma50PrevOf(h) >= Ma200PrevOf(h) THEN "Death Cross"
    ELSE "None"

TechnicalRaw(h) ==
    50
    + (IF 40 <= h.rsi /\ h.rsi <= 60 THEN 10
       ELSE IF h.rsi < 30 THEN 15
       ELSE IF h.rsi > 70 THEN -5
       ELSE 0)
    + (IF h.macd_hist > 0 /\ h.macd_hist_prev < 0 THEN 15
       ELSE IF h.macd_hist > 0 THEN 8
       ELSE IF h.macd_hist < 0 THEN -5
       ELSE 0)
    + (IF MaSignal(h) = "Bullish" THEN 15
       ELSE IF MaSignal(h) = "Bearish" THEN -10
       ELSE 0)
    + (IF CrossSignal(h) = "Golden Cross" THEN 10
       ELSE IF CrossSignal(h) = "Death Cross" THEN -15
       ELSE 0)

\* the score without its final max(0, min(100, .))
TechnicalScore_unclamped(h) == TechnicalRaw(h)

TechnicalScore(h) == Clamp100(TechnicalRaw(h))

\* the try block
TechnicalTry(h) ==
    IF h.raises THEN Thrown
    ELSE IF h.rows < MIN_TECH_ROWS THEN Returned(default_technical)
    ELSE Returned([rsi |-> h.rsi, macd_histogram |-> h.macd_hist,
                   ma20 |-> h.ma20, ma50 |-> h.ma50, ma200 |-> Ma200Of(h),
                   ma_signal |-> MaSignal(h), cross_signal |-> CrossSignal(h),
                   technical_score |-> TechnicalScore(h)])

\* the getter without its except clause
get_technical_analysis_no_except(h) == TechnicalTry(h)

\* except Exception: return self._default_technical()
get_technical_analysis(h) ==
    IF TechnicalTry(h).exc THEN Returned(default_technical) ELSE TechnicalTry(h)

\* ---- get_fundamental_analysis ----
\* pe is trailingPE (0 when absent), growth and roe in percent
default_fundamental ==
    [pe_ratio |-> NA, revenue_growth |-> 0, roe |-> 0, fundamental_score |-> 50]

FundamentalRaw(info) ==
    50
    + (IF 0 < info.pe /\ info.pe < 15 THEN 15
       ELSE IF 15 <= info.pe /\ info.pe < 25 THEN 10
       ELSE IF info.pe > 40 THEN -10
       ELSE IF info.pe < 0 THEN -15
       ELSE 0)
    + (IF info.revenue_growth > 20 THEN 15
       ELSE IF info.revenue_growth > 10 THEN 10
       ELSE IF info.revenue_growth > 0 THEN 5
       ELSE IF info.revenue_growth < 0 THEN -10
       ELSE 0)
    + (IF info.roe > 20 THEN 10
       ELSE IF info.roe > 10 THEN 5
       ELSE IF info.roe < 0 THEN -10
       ELSE 0)

FundamentalScore(info) == Clamp100(FundamentalRaw(info))

FundamentalTry(info) ==
    IF info.raises THEN Thrown
    ELSE Returned([pe_ratio |-> IF info.pe # 0 THEN Num(info.pe) ELSE NA,
                   revenue_growth |-> info.revenue_growth,
                   roe |-> info.roe,
                   fundamental_score |-> FundamentalScore(info)])

get_fundamental_analysis(info) ==
    IF FundamentalTry(info).exc THEN Returned(default_fundamental)
    ELSE FundamentalTry(info)

\* ---- get_analyst_ratings ----
default_analyst ==
    [company_name |-> "", current_price |-> 0, target_price |-> NA,
     recommendation |-> "none", analyst_score |-> 50]

\* rec_map.get(recommendation, 0)
RecMap(key) ==
    CASE key = "strongBuy" -> 25
      [] key = "buy" -> 20
      [] key = "hold" -> 0
      [] key = "sell" -> -15
      [] key = "strongSell" -> -25
      [] OTHER -> 0

\* upside = (target/current - 1) * 100 when both prices are positive, else 0;
\* upside > p is decided by cross-multiplication, without the division
HasUpside(info) == info.current_price > 0 /\ info.target_price > 0

UpsideAbove(info, p) ==
    HasUpside(info) /\ 100 * info.target_price > (100 + p) * info.current_price

UpsideBelow(info, p) ==
    HasUpside(info) /\ 100 * info.target_price < (100 + p) * info.current_price

AnalystRaw(info) ==
    50
    + RecMap(info.recommendation)
    + (IF UpsideAbove(info, 30) THEN 20
       ELSE IF UpsideAbove(info, 20) THEN 15
       ELSE IF UpsideAbove(info, 10) THEN 10
       ELSE IF UpsideAbove(info, 0) THEN 5
       ELSE IF UpsideBelow(info, -10) THEN -15
       ELSE 0)

AnalystScore(info) == Clamp100(AnalystRaw(info))

\* info.get('longName', '') or info.get('shortName', '') or ticker
CompanyName(info, ticker) ==
    IF info.long_name # "" THEN info.long_name
    ELSE IF info.short_name # "" THEN info.short_name
    ELSE ticker

AnalystTry(info, ticker) ==
    IF info.raises THEN Thrown
    ELSE Returned([company_name |-> CompanyName(info, ticker),
                   current_price |-> info.current_price,
                   target_price |-> IF info.target_price # 0
                                    THEN Num(info.target_price) ELSE NA,
                   recommendation |-> info.recommendation,
                   analyst_score |-> AnalystScore(info)])

get_analyst_ratings(info, ticker) ==
    IF AnalystTry(info, ticker).exc THEN Returned(default_analyst)
    ELSE AnalystTry(info, ticker)

\* ---- get_relative_strength ----
\* spy_rows is len(self.spy_data), -1 for None; rs_20d and rs_60d in percent
MIN_RS_ROWS == 20

default_rs == [rs_20d |-> 0, rs_60d |-> 0, rs_score |-> 50]

RelativeStrengthRaw(h) ==
    50
    + (IF h.rs_20d > 10 THEN 25
       ELSE IF h.rs_20d > 5 THEN 15
       ELSE IF h.rs_20d > 0 THEN 8
       ELSE IF h.rs_20d < -10 THEN -20
       ELSE IF h.rs_20d < -5 THEN -10
       ELSE 0)
    + (IF h.rs_60d > 15 THEN 15
       ELSE IF h.rs_60d > 5 THEN 8
       ELSE IF h.rs_60d < -15 THEN -15
       ELSE 0)

RelativeStrengthScore(h) == Clamp100(RelativeStrengthRaw(h))

RelativeStrengthTry(h, spy_rows) ==
    IF spy_rows < MIN_RS_ROWS THEN Returned(default_rs)
    ELSE IF h.raises THEN Thrown
    ELSE IF h.rows < MIN_RS_ROWS THEN Returned(default_rs)
    ELSE Returned([rs_20d |-> h.rs_20d, rs_60d |-> h.rs_60d,
                   rs_score |-> RelativeStrengthScore(h)])

get_relative_strength(h, spy_rows) ==
    IF RelativeStrengthTry(h, spy_rows).exc THEN Returned(default_rs)
    ELSE RelativeStrengthTry(h, spy_rows)

(***************************************************************************)
(* EnhancedSmartMoneyScreener.calculate_composite_score                    *)
(***************************************************************************)
\* the weights, in hundredths
W_SD == 25

W_INST == 20

W_TECH == 20

W_FUND == 15

W_ANALYST == 10

W_RS == 10

\* the grade thresholds
GRADE_S == 80

GRADE_A == 70

GRADE_B == 60

GRADE_C == 50

GRADE_D == 40

\* the sum with the technical and the fundamental weight exchanged
WeightedComposite_swapped(sd, inst, tech, fund, analyst, rs) ==
    FAdd(FAdd(FAdd(FAdd(FAdd(FMulInt(sd, FLit(W_SD)),
                             FMulInt(inst, FLit(W_INST))),
                        FMulInt(tech, FLit(W_FUND))),
                   FMulInt(fund, FLit(W_TECH))),
              FMulInt(analyst, FLit(W_ANALYST))),
         FMulInt(rs, FLit(W_RS)))

\* the weighted sum, added left to right as the expression is written
WeightedComposite(sd, inst, tech, fund, analyst, rs) ==
    FAdd(FAdd(FAdd(FAdd(FAdd(FMulInt(sd, FLit(W_SD)),
                             FMulInt(inst, FLit(W_INST))),
                        FMulInt(tech, FLit(W_TECH))),
                   FMulInt(fund, FLit(W_FUND))),
              FMulInt(analyst, FLit(W_ANALYST))),
         FMulInt(rs, FLit(W_RS)))

\* float > integer n, and the chain with > where the code has >=
FGtInt(x, n) == x.h > 100 * n \/ (x.h = 100 * n /\ x.e > 0)

DetermineGrade_strict(composite) ==
    IF FGtInt(composite, GRADE_S) THEN "S"
    ELSE IF FGtInt(composite, GRADE_A) THEN "A"
    ELSE IF FGtInt(composite, GRADE_B) THEN "B"
    ELSE IF FGtInt(composite, GRADE_C) THEN "C"
    ELSE IF FGtInt(composite, GRADE_D) THEN "D"
    ELSE "F"

\* the if/elif chain on the unrounded composite
DetermineGrade(composite) ==
    IF FGeInt(composite, GRADE_S) THEN "S"
    ELSE IF FGeInt(composite, GRADE_A) THEN "A"
    ELSE IF FGeInt(composite, GRADE_B) THEN "B"
    ELSE IF FGeInt(composite, GRADE_C) THEN "C"
    ELSE IF FGeInt(composite, GRADE_D) THEN "D"
    ELSE "F"

\* returns (round(composite, 1), grade); composite is kept for the checks
calculate_composite_score(sd, inst, tech, fund, analyst, rs) ==
    LET composite == WeightedComposite(sd, inst, tech, fund, analyst, rs)
    IN  [composite |-> composite,
         composite_score |-> PyRound1(composite),
         grade |-> DetermineGrade(composite)]

(***************************************************************************)
(* EnhancedSmartMoneyScreener.run_screening                                *)
(***************************************************************************)
\* the pre-filter: supply_demand_score >= 50
PREFILTER_MIN == 50

\* the rows of hold for the ticker of the volume row v, joined to v
RECURSIVE MatchRows(_, _)
MatchRows(v, hold) ==
    IF hold = <<>> THEN <<>>
    ELSE (IF Head(hold).ticker = v.ticker
          THEN <<[ticker |-> v.ticker, name |-> v.name,
                  supply_demand_score |-> v.supply_demand_score,
                  institutional_score |-> Head(hold).institutional_score]>>
          ELSE <<>>)
         \o MatchRows(v, Tail(hold))

\* pd.merge(volume_df, holdings_df, on='ticker', how='inner'): the left
\* table's order, a row for every match
RECURSIVE MergeInner(_, _)
MergeInner(vol, hold) ==
    IF vol = <<>> THEN <<>>
    ELSE MatchRows(Head(vol), hold) \o MergeInner(Tail(vol), hold)

\* the filter with > where the code has >=
PassesPreFilter_strict(row) == row.supply_demand_score > PREFILTER_MIN

PassesPreFilter(row) == row.supply_demand_score >= PREFILTER_MIN

PreFilter(merged) == SelectSeq(merged, PassesPreFilter)

\* the result dict of one ticker; rank is set after the sort
ResultRecord(row, tech, fund, analyst, rs) ==
    LET c == calculate_composite_score(row.supply_demand_score,
                                       row.institutional_score,
                                       tech.technical_score,
                                       fund.fundamental_score,
                                       analyst.analyst_score,
                                       rs.rs_score)
    IN  [ticker |-> row.ticker,
         name |-> IF "company_name" \in DOMAIN analyst THEN analyst.company_name
                  ELSE IF "name" \in DOMAIN row THEN row.name
                  ELSE row.ticker,
         composite_score |-> c.composite_score,
         grade |-> c.grade,
         sd_score |-> row.supply_demand_score,
         inst_score |-> row.institutional_score,
         tech_score |-> tech.technical_score,
         fund_score |-> fund.fundamental_score,
         analyst_score |-> analyst.analyst_score,
         rs_score |-> rs.rs_score,
         target_price |-> analyst.target_price,
         recommendation |-> analyst.recommendation,
         ma_signal |-> tech.ma_signal,
         cross_signal |-> tech.cross_signal,
         pe_ratio |-> fund.pe_ratio,
         rank |-> 0]

IsDescending(seq) ==
    \A i \in 1..(Len(seq) - 1) : seq[i].composite_score >= seq[i + 1].composite_score

\* the rows left in the order of the loop
SortedByComposite_unsorted(seq) == {seq}

\* sort_values('composite_score', ascending=False), default kind quicksort:
\* every descending arrangement of the rows (the order of equal scores is
\* the sort routine's choice)
SortedByComposite(seq) ==
    {s \in {[i \in 1..Len(seq) |-> seq[p[i]]] : p \in Permutations(1..Len(seq))} :
        IsDescending(s)}

\* results_df['rank'] = range(1, len(results_df) + 1)
AssignRanks(seq) == [i \in 1..Len(seq) |-> [seq[i] EXCEPT !.rank = i]]

(***************************************************************************)
(* FinalReportGenerator.calculate_ai_score                                 *)
(* A summary is None or a text; a text is its words, joined by single      *)
(* blanks.  The Korean keywords are written in Latin letters: maesu,       *)
(* jeokgeuk maesu, maedo, gihoe, seongjang, sangseung, jamjaeryeok,        *)
(* riseukeu, uryeo, harak, yakse.                                          *)
(***************************************************************************)
NoText == [none |-> TRUE, words |-> <<>>]

Text(ws) == [none |-> FALSE, words |-> ws]

\* Python's truth value of a summary: None and '' are false
Truthy(t) == ~t.none /\ t.words # <<>>

API_KEY_MISSING == Text(<<"API", "Key", "Missing">>)

ANALYSIS_FAILED == Text(<<"Analysis", "Failed">>)

\* str.lower() of one word
LowerWord(w) ==
    CASE w = "Strong" -> "strong"
      [] w = "BUY" -> "buy"
      [] w = "Growth" -> "growth"
      [] w = "API" -> "api"
      [] w = "Key" -> "key"
      [] w = "Missing" -> "missing"
      [] w = "Analysis" -> "analysis"
      [] w = "Failed" -> "failed"
      [] w = "Failed:" -> "failed:"
      [] w = "Content" -> "content"
      [] w = "No" -> "no"
      [] w = "Invalid" -> "invalid"
      [] w = "Package" -> "package"
      [] OTHER -> w

Lower(ws) == [i \in DOMAIN ws |-> LowerWord(ws[i])]

\* the keyword words that are substrings of the word w, that w starts
\* with, that w ends with
Inside(w) ==
    {w} \cup (IF w = "buyer" THEN {"buy"} ELSE {})
        \cup (IF w = "brisk" THEN {"risk"} ELSE {})

StartsWith(w) == {w} \cup (IF w = "buyer" THEN {"buy"} ELSE {})

EndsWith(w) == {w} \cup (IF w = "brisk" THEN {"risk"} ELSE {})

\* keyword in summary_lower: the keyword kw (its words) is a substring of
\* the text ws
KeywordIn(kw, ws) ==
    IF Len(kw) = 1
    THEN \E i \in DOMAIN ws : kw[1] \in Inside(ws[i])
    ELSE \E i \in 1..(Len(ws) - Len(kw) + 1) :
             /\ kw[1] \in EndsWith(ws[i])
             /\ kw[Len(kw)] \in StartsWith(ws[i + Len(kw) - 1])
             /\ \A j \in 2..(Len(kw) - 1) : kw[j] = ws[i + j - 1]

buy_keywords == {<<"buy">>, <<"maesu">>, <<"purchase">>, <<"acquisition">>}

strong_buy_keywords ==
    {<<"strong", "buy">>, <<"jeokgeuk", "maesu">>, <<"aggressive">>,
     <<"high", "conviction">>}

sell_keywords == {<<"sell">>, <<"maedo">>, <<"avoid">>, <<"caution">>, <<"risk">>}

positive_words ==
    {<<"opportunity">>, <<"growth">>, <<"upside">>, <<"potential">>,
     <<"gihoe">>, <<"seongjang">>, <<"sangseung">>, <<"jamjaeryeok">>}

negative_words ==
    {<<"risk">>, <<"concern">>, <<"decline">>, <<"downside">>,
     <<"riseukeu">>, <<"uryeo">>, <<"harak">>, <<"yakse">>}

\* any(keyword in summary_lower for keyword in keywords)
AnyKeywordIn(keywords, ws) == \E kw \in keywords : KeywordIn(kw, ws)

\* sum(1 for word in words if word in summary_lower)
CountIn(words, ws) == Cardinality({w \in words : KeywordIn(w, ws)})

\* the chain with the buy branch tested before the strong-buy branch
KeywordBranch_buy_first(ws) ==
    IF AnyKeywordIn(buy_keywords, ws) THEN [ai_score |-> 10, rec |-> "Buy"]
    ELSE IF AnyKeywordIn(strong_buy_keywords, ws)
         THEN [ai_score |-> 20, rec |-> "Strong Buy"]
    ELSE IF AnyKeywordIn(sell_keywords, ws) THEN [ai_score |-> -10, rec |-> "Sell"]
    ELSE [ai_score |-> 0, rec |-> "Hold"]

\* the if/elif chain on the lowered text
KeywordBranch(ws) ==
    IF AnyKeywordIn(strong_buy_keywords, ws)
    THEN [ai_score |-> 20, rec |-> "Strong Buy"]
    ELSE IF AnyKeywordIn(buy_keywords, ws) THEN [ai_score |-> 10, rec |-> "Buy"]
    ELSE IF AnyKeywordIn(sell_keywords, ws) THEN [ai_score |-> -10, rec |-> "Sell"]
    ELSE [ai_score |-> 0, rec |-> "Hold"]

SentimentAdjust(ws) ==
    IF CountIn(positive_words, ws) > CountIn(negative_words, ws) THEN 5
    ELSE IF CountIn(negative_words, ws) > CountIn(positive_words, ws) THEN -5
    ELSE 0

\* returns (ai_score, rec); scanned tells whether the keyword scan ran
calculate_ai_score(summary) ==
    IF ~Truthy(summary) \/ summary = API_KEY_MISSING \/ summary = ANALYSIS_FAILED
    THEN [ai_score |-> 0, rec |-> "Hold", scanned |-> FALSE]
    ELSE [ai_score |-> Max(-20, Min(25, KeywordBranch(Lower(summary.words)).ai_score
                                        + SentimentAdjust(Lower(summary.words)))),
          rec |-> KeywordBranch(Lower(summary.words)).rec,
          scanned |-> TRUE]

(***************************************************************************)
(* FinalReportGenerator.generate_report                                    *)
(* quant_score and final_score are in tenths of a point.  quant_score is   *)
(* a one-decimal value read from the CSV, so quant_score * 0.8 +           *)
(* ai_weighted is an even number of hundredths: it is never halfway        *)
(* between two tenths, and the double the code computes is within 1e-12    *)
(* of it, so round(., 1) is the tenth nearest to the exact value.          *)
(***************************************************************************)
\* an entry of ai_summaries.json: absent is TRUE when the ticker has none
NoEntry == [absent |-> TRUE, summary |-> NoText, summary_ko |-> NoText]

Entry(summary, summary_ko) ==
    [absent |-> FALSE, summary |-> summary, summary_ko |-> summary_ko]

\* summary = ""; if ticker in ai_data: summary = .get('summary', '') or
\* .get('summary_ko', '')
SummaryOf(entry) ==
    IF entry.absent THEN Text(<<>>)
    ELSE IF Truthy(entry.summary) THEN entry.summary
    ELSE entry.summary_ko

\* the AI score added without its scaling
AiWeighted_unscaled(ai_score) == ai_score

\* (ai_score / 25) * 20 if ai_score > 0 else (ai_score / 20) * 20, in
\* points (ai_score is a multiple of 5)
AiWeighted(ai_score) ==
    IF ai_score > 0 THEN (ai_score * 20) \div 25 ELSE (ai_score * 20) \div 20

\* quant_score * 0.8 + ai_weighted, in hundredths
RawFinalScore(quant_score, ai_score) == 8 * quant_score + 100 * AiWeighted(ai_score)

\* max(0, min(100, final_score)), in hundredths
ClampFinal(x) == Max(0, Min(10000, x))

\* the value cut to one decimal
RoundTenth_floor(x) == x \div 10

\* round(x, 1) of x hundredths, in tenths
RoundTenth(x) == (x + 5) \div 10

\* one entry of results; rank is set after the truncation
ReportRecord(row, entry) ==
    [ticker |-> row.ticker,
     final_score |-> RoundTenth(ClampFinal(RawFinalScore(
                         row.composite_score,
                         calculate_ai_score(SummaryOf(entry)).ai_score))),
     quant_score |-> row.composite_score,
     ai_score |-> calculate_ai_score(SummaryOf(entry)).ai_score,
     ai_recommendation |-> calculate_ai_score(SummaryOf(entry)).rec,
     ai_summary |-> SummaryOf(entry),
     rank |-> 0]

\* rec put behind the entries of sorted that are not below it
RECURSIVE InsertByFinalScore(_, _)
InsertByFinalScore(rec, sorted) ==
    IF sorted = <<>> THEN <<rec>>
    ELSE IF Head(sorted).final_score >= rec.final_score
         THEN <<Head(sorted)>> \o InsertByFinalScore(rec, Tail(sorted))
         ELSE <<rec>> \o sorted

\* the entries in ascending order
RECURSIVE SortByFinalScore_ascending(_)
SortByFinalScore_ascending(seq) ==
    IF seq = <<>> THEN <<>>
    ELSE SelectSeq(SortByFinalScore_ascending(Tail(seq)),
                   LAMBDA r : r.final_score < Head(seq).final_score)
         \o <<Head(seq)>>
         \o SelectSeq(SortByFinalScore_ascending(Tail(seq)),
                      LAMBDA r : r.final_score >= Head(seq).final_score)

\* results.sort(key=lambda x: x['final_score'], reverse=True): stable
RECURSIVE SortByFinalScore(_)
SortByFinalScore(seq) ==
    IF seq = <<>> THEN <<>>
    ELSE InsertByFinalScore(seq[Len(seq)],
                            SortByFinalScore(SubSeq(seq, 1, Len(seq) - 1)))

\* results[:top_n], a negative top_n counting from the end
TopN(seq, n) ==
    IF n >= 0 THEN SubSeq(seq, 1, Min(n, Len(seq)))
    ELSE SubSeq(seq, 1, Max(0, Len(seq) + n))

\* for i, pick in enumerate(top_picks, 1): pick['rank'] = i
AssignPickRanks(seq) == [i \in 1..Len(seq) |-> [seq[i] EXCEPT !.rank = i]]

(***************************************************************************)
(* calculate_composite_score as a pure function: SpecGrade                 *)
(***************************************************************************)
\* sub-scores at the two ends of the scale; with the six weights their
\* sums reach every threshold (0, 40, 50, 60, 70, 80, 100)
EndScores == {0, 100}

\* the relative-strength score also one point below the top: weight 0.10
\* turns it into the x.9 rows of the grade table (39.9, 49.9, ... 79.9)
RsScores == {0, 99, 100}

\* sub-scores whose weighted sum is 59.25, halfway between two tenths
HalfwayScores == <<60, 70, 55, 65, 50, 45>>

\* sub-scores the scorers return (supply/demand 50+15, institutional 50+15,
\* technical 50+8, the two defaults, relative strength 50+8+8) whose
\* weighted sum is 59.95
NearBandScores == <<65, 65, 58, 50, 50, 66>>

GradeInputs ==
    (EndScores \X EndScores \X EndScores \X EndScores \X EndScores \X RsScores)
    \cup {HalfwayScores, NearBandScores}

NoResult == [composite |-> Fl(0, 0), composite_score |-> 0, grade |-> "none"]

GradeIdle ==
    /\ g_in = <<0, 0, 0, 0, 0, 0>>
    /\ g_out = NoResult
    /\ g_prev = NoResult

ScoreIdle ==
    /\ sc_kind = "none"
    /\ sc_out = [none |-> TRUE]

ScreenIdle ==
    /\ volume_df = <<>>
    /\ holdings_df = <<>>
    /\ spy_data = 0
    /\ s_pc = "idle"
    /\ filtered = <<>>
    /\ s_i = 0
    /\ results = <<>>
    /\ fetch_log = <<>>

VolumeIdle ==
    /\ price_rows = <<>>
    /\ v_pc = "idle"
    /\ v_i = 0
    /\ v_results = <<>>
    /\ v_csv = <<>>

AIIdle ==
    /\ ai_in = [none |-> TRUE, words |-> <<>>]
    /\ ai_out = [ai_score |-> 0, rec |-> "none", scanned |-> FALSE]

ReportIdle ==
    /\ quant_file = <<>>
    /\ ai_data = <<>>
    /\ top_n = 0
    /\ r_pc = "idle"
    /\ r_df = <<>>
    /\ r_i = 0
    /\ r_results = <<>>
    /\ top_picks = <<>>

AIRunIdle ==
    /\ api_key = FALSE
    /\ picks_file = <<>>
    /\ summaries_file = <<>>
    /\ a_args = [top_n |-> 0, skip_existing |-> TRUE]
    /\ a_pc = "off"
    /\ a_df = <<>>
    /\ a_i = 0
    /\ a_results = <<>>
    /\ a_clock = 0
    /\ a_calls = <<>>
    /\ a_before = <<>>

PipeIdle ==
    /\ fs = <<>>
    /\ p_clock = 0
    /\ p_last = [stage |-> "none"]
    /\ p_reads = {}
    /\ p_writes = {}

RerunIdle ==
    /\ rr_run = 0
    /\ rr_prev = <<>>
    /\ rr_data = <<>>
    /\ rr_sort = "keep"

CsvIdle ==
    /\ csv_rec = <<>>
    /\ csv_file = <<>>
    /\ csv_back = <<>>

GenIdle ==
    /\ gen_call = <<>>
    /\ gen_entry = <<>>
    /\ gen_score = <<>>

InstIdle ==
    /\ i_fetch = <<>>
    /\ i_pc = "off"
    /\ i_i = 0
    /\ i_results = <<>>
    /\ i_log = <<>>

IndIdle ==
    /\ ind_in = <<>>
    /\ ind_out = <<>>

DriverIdle ==
    /\ u_args = <<>>
    /\ scripts_to_run = <<>>
    /\ u_pc = "off"
    /\ u_i = 0
    /\ u_running = {}
    /\ success_count = 0
    /\ failed_scripts = <<>>
    /\ u_log = <<>>
    /\ u_exit = -1
    /\ u_last = "none"

RetryIdle ==
    /\ rt_cfg = <<>>
    /\ rt_pc = "off"
    /\ attempt = 0
    /\ last_exception = <<>>
    /\ rt_calls = <<>>
    /\ rt_sleeps = <<>>
    /\ rt_out = <<>>

LimiterIdle ==
    /\ rl_cfg = <<>>
    /\ rl_clock = 0
    /\ rl_calls = <<>>
    /\ rl_pc = "off"
    /\ rl_now = 0
    /\ rl_admitted = <<>>
    /\ rl_slept = 0

LateIdle ==
    /\ IndIdle
    /\ DriverIdle
    /\ RetryIdle
    /\ LimiterIdle

BaseIdle ==
    /\ GradeIdle
    /\ ScoreIdle
    /\ ScreenIdle
    /\ VolumeIdle
    /\ AIIdle
    /\ ReportIdle

ExtIdle ==
    /\ AIRunIdle
    /\ PipeIdle
    /\ RerunIdle
    /\ CsvIdle
    /\ GenIdle
    /\ InstIdle

GradeInit ==
    /\ g_in \in GradeInputs
    /\ g_out = NoResult
    /\ g_prev = NoResult
    /\ ScoreIdle
    /\ ScreenIdle
    /\ VolumeIdle
    /\ AIIdle
    /\ ReportIdle
    /\ ExtIdle
    /\ LateIdle

\* one call; the previous result is kept to compare two calls
CalcComposite ==
    /\ g_out = NoResult
    /\ g_out' = calculate_composite_score(g_in[1], g_in[2], g_in[3],
                                          g_in[4], g_in[5], g_in[6])
    /\ UNCHANGED <<g_in, g_prev>>
    /\ UNCHANGED notGrade

\* the next call, on other sub-scores
NextCall ==
    /\ g_out # NoResult
    /\ g_prev' = g_out
    /\ g_out' = NoResult
    /\ g_in' \in GradeInputs
    /\ UNCHANGED notGrade

GradeNext == CalcComposite \/ NextCall

SpecGrade == GradeInit /\ [][GradeNext]_vars

\* the six grades, worst to best
GradeRank(g) ==
    CASE g = "F" -> 0
      [] g = "D" -> 1
      [] g = "C" -> 2
      [] g = "B" -> 3
      [] g = "A" -> 4
      [] g = "S" -> 5
      [] OTHER -> -1

GradeThresholds == {GRADE_D, GRADE_C, GRADE_B, GRADE_A, GRADE_S}

\* the table of the claim: composite in hundredths, grade
GradeTable ==
    {<<0, "F">>, <<3990, "F">>, <<4000, "D">>, <<4990, "D">>,
     <<5000, "C">>, <<5990, "C">>, <<6000, "B">>, <<6990, "B">>,
     <<7000, "A">>, <<7990, "A">>, <<8000, "S">>, <<10000, "S">>}

\* C3: the grade is the band of the unrounded composite among the
\* thresholds 40/50/60/70/80 (as many grades above F as thresholds reached),
\* of two calls the one with the higher composite never gets the worse
\* grade, and each row of the table 0->F ... 100->S gets its grade
C3_GradeByThresholds ==
    /\ g_out # NoResult =>
           GradeRank(g_out.grade) =
               Cardinality({t \in GradeThresholds : FGeInt(g_out.composite, t)})
    /\ (g_out # NoResult /\ g_prev # NoResult
          /\ FLeq(g_prev.composite, g_out.composite)) =>
           GradeRank(g_prev.grade) <= GradeRank(g_out.grade)
    /\ g_out # NoResult =>
           \A row \in GradeTable :
               g_out.composite.h = row[1] => g_out.grade = row[2]

\* C3 witness: two calls on either side of a threshold, 79.9 -> A then
\* exactly 80 -> S
C3_Witness ==
    /\ g_prev.composite.h = 7990
    /\ g_prev.grade = "A"
    /\ g_out.composite = Fl(8000, 0)
    /\ g_out.grade = "S"

(***************************************************************************)
(* The six scorers as pure functions: SpecScore                            *)
(***************************************************************************)
\* price levels of the moving averages
MaxPx == 4

\* insider transactions of either kind among the recent ones
MaxTxn == 2

PctSamples == {-20, -10, -7, -5, 0, 5, 7, 10, 20}

SupplyDemandInputs ==
    [obv_change : PctSamples, ad_change : PctSamples,
     vol_ratio : {50, 70, 100, 120, 130, 150, 200},
     mfi : {0, 30, 50, 70, 100}]

InstitutionalInputs ==
    [inst_pct : {0, 29, 30, 60, 61, 80, 81, 100},
     buys : 0..MaxTxn, sells : 0..MaxTxn,
     short_pct : {0, 2, 3, 10, 11, 20, 21, 50}]

\* a flat six-month history: no signal of any kind
QuietTech ==
    [raises |-> FALSE, rows |-> 126, rsi |-> 65,
     macd_hist |-> 0, macd_hist_prev |-> 0,
     price |-> 1, ma20 |-> 1, ma50 |-> 1, ma200 |-> 1,
     ma50_prev |-> 1, ma200_prev |-> 1]

\* histories long enough to be scored, a fetch that throws, a short history
TechnicalInputs ==
    [raises : {FALSE}, rows : {50, 200, 205},
     rsi : {0, 29, 30, 40, 60, 70, 71, 100},
     macd_hist : {-1, 0, 1}, macd_hist_prev : {-1, 0},
     price : 1..MaxPx, ma20 : 1..MaxPx, ma50 : 1..MaxPx, ma200 : 1..MaxPx,
     ma50_prev : 1..MaxPx, ma200_prev : 1..MaxPx]
    \cup {[QuietTech EXCEPT !.raises = TRUE],
          [QuietTech EXCEPT !.rows = MIN_TECH_ROWS - 1]}

\* revenue growth -1.0 and +5.0 are -100 and 500 percent
FundamentalInputs ==
    [raises : BOOLEAN, pe : {-5, 0, 10, 15, 24, 25, 40, 41},
     revenue_growth : {-100, 0, 5, 10, 11, 20, 21, 500},
     roe : {-10, 0, 10, 11, 20, 21}]

AnalystInputs ==
    [raises : BOOLEAN,
     recommendation : {"strongBuy", "buy", "hold", "sell", "strongSell",
                       "none", "underperform"},
     current_price : {0, 10}, target_price : {0, 8, 9, 10, 11, 12, 13, 14},
     long_name : {"", "Acme Inc"}, short_name : {"", "Acme"}]

RelativeStrengthInputs ==
    [raises : BOOLEAN, rows : {19, 20, 21},
     rs_20d : {-20, -10, -7, -5, 0, 3, 5, 7, 10, 20},
     rs_60d : {-20, -15, 0, 5, 7, 15, 20}]

SpyRows == {-1, 19, 20, 63}

ScoreInit ==
    /\ sc_kind = "none"
    /\ sc_out = [none |-> TRUE]
    /\ GradeIdle
    /\ ScreenIdle
    /\ VolumeIdle
    /\ AIIdle
    /\ ReportIdle
    /\ ExtIdle
    /\ LateIdle

ScoreSupplyDemand ==
    /\ sc_kind = "none"
    /\ \E rows \in {MIN_ROWS - 1, MIN_ROWS}, ind \in SupplyDemandInputs :
           sc_out' = analyze_supply_demand(rows, ind)
    /\ sc_kind' = "supply_demand"
    /\ UNCHANGED notScore

ScoreInstitutional ==
    /\ sc_kind = "none"
    /\ \E info \in InstitutionalInputs :
           sc_out' = InstitutionalRecord("T1", info)
    /\ sc_kind' = "institutional"
    /\ UNCHANGED notScore

ScoreTechnical ==
    /\ sc_kind = "none"
    /\ \E h \in TechnicalInputs : sc_out' = get_technical_analysis(h).val
    /\ sc_kind' = "technical"
    /\ UNCHANGED notScore

ScoreFundamental ==
    /\ sc_kind = "none"
    /\ \E info \in FundamentalInputs : sc_out' = get_fundamental_analysis(info).val
    /\ sc_kind' = "fundamental"
    /\ UNCHANGED notScore

ScoreAnalyst ==
    /\ sc_kind = "none"
    /\ \E info \in AnalystInputs : sc_out' = get_analyst_ratings(info, "T1").val
    /\ sc_kind' = "analyst"
    /\ UNCHANGED notScore

ScoreRelativeStrength ==
    /\ sc_kind = "none"
    /\ \E h \in RelativeStrengthInputs, spy_rows \in SpyRows :
           sc_out' = get_relative_strength(h, spy_rows).val
    /\ sc_kind' = "relative_strength"
    /\ UNCHANGED notScore

ScoreNext ==
    \/ ScoreSupplyDemand
    \/ ScoreInstitutional
    \/ ScoreTechnical
    \/ ScoreFundamental
    \/ ScoreAnalyst
    \/ ScoreRelativeStrength

SpecScore == ScoreInit /\ [][ScoreNext]_vars

\* the sub-score a scorer's record carries (50 stands in when there is none)
SubScoreOf(kind, out) ==
    CASE kind = "supply_demand" ->
             IF out.none THEN 50 ELSE out.supply_demand_score
      [] kind = "institutional" -> out.institutional_score
      [] kind = "technical" -> out.technical_score
      [] kind = "fundamental" -> out.fundamental_score
      [] kind = "analyst" -> out.analyst_score
      [] kind = "relative_strength" -> out.rs_score
      [] OTHER -> 50

\* C2: every sub-score a scorer returns lies in [0, 100], whatever the
\* combination of input bands (extreme inputs included)
C2_SubScoresInRange ==
    /\ SubScoreOf(sc_kind, sc_out) >= 0
    /\ SubScoreOf(sc_kind, sc_out) <= 100

\* C2 witness: all four technical bonuses at once (oversold RSI, bullish
\* arrangement, golden cross, MACD turning positive: 50+15+15+15+10 = 105)
\* come out as 100
C2_Witness ==
    /\ sc_kind = "technical"
    /\ sc_out.rsi = 0
    /\ sc_out.macd_histogram > 0
    /\ sc_out.ma_signal = "Bullish"
    /\ sc_out.cross_signal = "Golden Cross"
    /\ sc_out.technical_score = 100

(***************************************************************************)
(* VolumeAnalyzer.run on a prices file: SpecVolume                         *)
(***************************************************************************)
\* the ticker symbols, in the order of the files
TickerPool == <<"AAA", "BBB", "CCC", "DDD", "EEE">>

\* tickers of the prices file
NumPriceTickers == 3

\* the longest price history
MaxRows == 31

\* rows of one ticker: one, just short of the minimum, the minimum, more
RowCounts == {1, MIN_ROWS - 1, MIN_ROWS, MaxRows}

\* the indicators of a history: quiet (50), all four bullish (95), all four
\* bearish (10)
PriceIndicators ==
    {[obv_change |-> 0, ad_change |-> 0, vol_ratio |-> 100, mfi |-> 50],
     [obv_change |-> 11, ad_change |-> 11, vol_ratio |-> 151, mfi |-> 71],
     [obv_change |-> -11, ad_change |-> -11, vol_ratio |-> 69, mfi |-> 29]}

\* df['ticker'].unique(): every ticker of the file has at least one row
VolumeInit ==
    /\ price_rows \in [1..NumPriceTickers -> RowCounts]
    /\ v_pc = "loop"
    /\ v_i = 1
    /\ v_results = <<>>
    /\ v_csv = <<>>
    /\ GradeIdle
    /\ ScoreIdle
    /\ ScreenIdle
    /\ AIIdle
    /\ ReportIdle
    /\ ExtIdle
    /\ LateIdle

\* one iteration of the loop over the tickers
VolumeTicker ==
    /\ v_pc = "loop"
    /\ v_i <= Len(price_rows)
    /\ \E ind \in PriceIndicators :
           v_results' = v_results \o VolumeLoopBody(TickerPool[v_i], price_rows[v_i], ind)
    /\ v_i' = v_i + 1
    /\ UNCHANGED <<price_rows, v_pc, v_csv>>
    /\ UNCHANGED notVolume

\* after the loop: results_df.to_csv(self.output_file)
VolumeSave ==
    /\ v_pc = "loop"
    /\ v_i > Len(price_rows)
    /\ v_csv' = v_results
    /\ v_pc' = "saved"
    /\ UNCHANGED <<price_rows, v_i, v_results>>
    /\ UNCHANGED notVolume

VolumeNext == VolumeTicker \/ VolumeSave

SpecVolume == VolumeInit /\ [][VolumeNext]_vars

VolumeRecordsOf(i) == {k \in DOMAIN v_csv : v_csv[k].ticker = TickerPool[i]}

\* C10: in the written output a ticker with fewer than 30 price rows has
\* no record and a ticker with at least 30 rows has exactly one; the list
\* being built never holds a record of a ticker with fewer than 30 rows
C10_ShortHistoryExcluded ==
    /\ v_pc = "saved" =>
           \A i \in DOMAIN price_rows :
               Cardinality(VolumeRecordsOf(i)) = (IF price_rows[i] < 30 THEN 0 ELSE 1)
    /\ \A k \in DOMAIN v_results :
           \E i \in DOMAIN price_rows :
               TickerPool[i] = v_results[k].ticker /\ price_rows[i] >= 30

\* a written output: the ticker with 29 rows is absent, the ticker with 30
\* rows has its record
C10_Witness ==
    /\ v_pc = "saved"
    /\ price_rows[1] = 29
    /\ price_rows[2] = 30
    /\ VolumeRecordsOf(1) = {}
    /\ Cardinality(VolumeRecordsOf(2)) = 1

(***************************************************************************)
(* run_screening on loaded tables: SpecScreen                              *)
(***************************************************************************)
\* tickers of the stock list
NumTickers == 2

\* supply/demand scores of the volume table (-1: no row for the ticker):
\* below the pre-filter, on it, above it
VolumeChoices == {-1, 45, 50, 60}

\* institutional scores of the holdings table (-1: no row for the ticker)
HoldingsChoices == {-1, 70}

RECURSIVE VolumeRows(_, _)
VolumeRows(c, i) ==
    IF i > NumTickers THEN <<>>
    ELSE (IF c[i] < 0 THEN <<>>
          ELSE <<[ticker |-> TickerPool[i], name |-> TickerPool[i],
                  supply_demand_score |-> c[i]]>>)
         \o VolumeRows(c, i + 1)

RECURSIVE HoldingsRows(_, _)
HoldingsRows(c, i) ==
    IF i > NumTickers THEN <<>>
    ELSE (IF c[i] < 0 THEN <<>>
          ELSE <<[ticker |-> TickerPool[i], institutional_score |-> c[i]]>>)
         \o HoldingsRows(c, i + 1)

\* what the data source gives for one ticker: a scored history (RSI 50,
\* MACD histogram negative: 55), a fetch that throws
ScoredTech == [QuietTech EXCEPT !.rsi = 50, !.macd_hist = -1]

ScreenTechnical == {ScoredTech, [ScoredTech EXCEPT !.raises = TRUE]}

\* P/E 10 (65), a fetch that throws
QuietFund == [raises |-> FALSE, pe |-> 10, revenue_growth |-> 0, roe |-> 0]

ScreenFundamental == {QuietFund, [QuietFund EXCEPT !.raises = TRUE]}

\* consensus buy without a target (70), a fetch that throws
QuietAnalyst ==
    [raises |-> FALSE, recommendation |-> "buy", current_price |-> 10,
     target_price |-> 0, long_name |-> "Acme Inc", short_name |-> "Acme"]

ScreenAnalyst == {QuietAnalyst, [QuietAnalyst EXCEPT !.raises = TRUE]}

\* 20 days far behind, 60 days far ahead (45), a fetch that throws
QuietRS == [raises |-> FALSE, rows |-> 63, rs_20d |-> -20, rs_60d |-> 20]

ScreenRelativeStrength == {QuietRS, [QuietRS EXCEPT !.raises = TRUE]}

\* the four fetches of one ticker: every subset of them failing, and
\* the two with a short history
ScreenEnrichments ==
    [tech : ScreenTechnical, fund : ScreenFundamental,
     analyst : ScreenAnalyst, rs : ScreenRelativeStrength]
    \cup {[tech |-> [ScoredTech EXCEPT !.rows = MIN_TECH_ROWS - 1],
            fund |-> QuietFund, analyst |-> QuietAnalyst, rs |-> QuietRS],
           [tech |-> ScoredTech, fund |-> QuietFund, analyst |-> QuietAnalyst,
            rs |-> [QuietRS EXCEPT !.rows = MIN_RS_ROWS - 1]]}

\* the benchmark: loaded (three months), None
ScreenSpy == {63, -1}

\* the state after load_data
ScreenInit ==
    /\ \E c \in [1..NumTickers -> VolumeChoices] : volume_df = VolumeRows(c, 1)
    /\ \E c \in [1..NumTickers -> HoldingsChoices] : holdings_df = HoldingsRows(c, 1)
    /\ spy_data \in ScreenSpy
    /\ s_pc = "start"
    /\ filtered = <<>>
    /\ s_i = 0
    /\ results = <<>>
    /\ fetch_log = <<>>
    /\ GradeIdle
    /\ ScoreIdle
    /\ VolumeIdle
    /\ AIIdle
    /\ ReportIdle
    /\ ExtIdle
    /\ LateIdle

\* the merge and the pre-filter
ScreenMerge ==
    /\ s_pc = "start"
    /\ filtered' = PreFilter(MergeInner(volume_df, holdings_df))
    /\ s_i' = 1
    /\ s_pc' = "loop"
    /\ UNCHANGED <<volume_df, holdings_df, spy_data, results, fetch_log>>
    /\ UNCHANGED notScreen

\* one iteration of the loop over the pre-filtered rows, the enrichment
\* calls fetching en: the four calls, the composite, the result appended.
\* An exception that left a getter would leave run_screening with it.
ScreenIteration(en) ==
    LET row == filtered[s_i]
        tech == get_technical_analysis(en.tech)
        fund == get_fundamental_analysis(en.fund)
        analyst == get_analyst_ratings(en.analyst, row.ticker)
        rs == get_relative_strength(en.rs, spy_data)
    IN  /\ fetch_log' = Append(fetch_log,
                               [ticker |-> row.ticker, tech |-> en.tech,
                                fund |-> en.fund, analyst |-> en.analyst,
                                rs |-> en.rs])
        /\ IF tech.exc \/ fund.exc \/ analyst.exc \/ rs.exc
           THEN /\ s_pc' = "raised"
                /\ results' = <<>>
                /\ s_i' = s_i
           ELSE /\ s_pc' = "loop"
                /\ results' = Append(results,
                                     ResultRecord(row, tech.val, fund.val,
                                                  analyst.val, rs.val))
                /\ s_i' = s_i + 1

ScreenTicker ==
    /\ s_pc = "loop"
    /\ s_i <= Len(filtered)
    /\ \E en \in ScreenEnrichments : ScreenIteration(en)
    /\ UNCHANGED <<volume_df, holdings_df, spy_data, filtered>>
    /\ UNCHANGED notScreen

\* after the loop: the sort and the ranks (nothing to do on no result)
ScreenSort ==
    /\ s_pc = "loop"
    /\ s_i > Len(filtered)
    /\ \E s \in SortedByComposite(results) : results' = AssignRanks(s)
    /\ s_pc' = "done"
    /\ UNCHANGED <<volume_df, holdings_df, spy_data, filtered, s_i, fetch_log>>
    /\ UNCHANGED notScreen

ScreenNext == ScreenMerge \/ ScreenTicker \/ ScreenSort

SpecScreen == ScreenInit /\ [][ScreenNext]_vars

\* the weighted sum of a record's stored sub-scores, exactly, in hundredths
StoredWeightedSum(rec) ==
    25 * rec.sd_score + 20 * rec.inst_score + 20 * rec.tech_score
    + 15 * rec.fund_score + 10 * rec.analyst_score + 10 * rec.rs_score

SameSubScores(a, b) ==
    /\ a.sd_score = b.sd_score
    /\ a.inst_score = b.inst_score
    /\ a.tech_score = b.tech_score
    /\ a.fund_score = b.fund_score
    /\ a.analyst_score = b.analyst_score
    /\ a.rs_score = b.rs_score

\* C1: every record's composite_score is a one-decimal value nearest to
\* 0.25*sd + 0.20*inst + 0.20*tech + 0.15*fund + 0.10*analyst + 0.10*rs of
\* the sub-scores stored in the record (at most 0.05 away), and two records
\* with the same six sub-scores have the same composite_score
C1_CompositeFromStoredSubScores ==
    /\ \A i \in DOMAIN results :
           /\ 10 * results[i].composite_score - StoredWeightedSum(results[i]) <= 5
           /\ StoredWeightedSum(results[i]) - 10 * results[i].composite_score <= 5
    /\ \A i, j \in DOMAIN results :
           SameSubScores(results[i], results[j])
               => results[i].composite_score = results[j].composite_score

\* a finished run with a record whose weighted sum had to be rounded and
\* whose technical and fundamental scores differ
C1_Witness ==
    /\ s_pc = "done"
    /\ \E i \in DOMAIN results :
           /\ StoredWeightedSum(results[i]) % 10 # 0
           /\ results[i].tech_score = 55
           /\ results[i].fund_score = 65

TickersOf(seq) == {seq[i].ticker : i \in DOMAIN seq}

\* the tickers with a volume record of supply_demand_score >= 50 and an
\* institutional record
Eligible ==
    {volume_df[i].ticker : i \in {k \in DOMAIN volume_df :
                                     volume_df[k].supply_demand_score >= 50}}
    \cap TickersOf(holdings_df)

\* C4: the output of a finished run holds exactly the tickers with a
\* volume record of supply_demand_score >= 50 and an institutional record;
\* at no point is there a record or an enrichment fetch for another ticker
C4_PreFilterGate ==
    /\ s_pc = "done" => TickersOf(results) = Eligible
    /\ TickersOf(results) \subseteq Eligible
    /\ TickersOf(fetch_log) \subseteq Eligible

\* a finished run: a ticker on the threshold is in the output, one below
\* it has both records and neither a result nor a fetch
C4_Witness ==
    /\ s_pc = "done"
    /\ \E i \in DOMAIN volume_df :
           /\ volume_df[i].supply_demand_score = 50
           /\ volume_df[i].ticker \in TickersOf(results)
    /\ \E i \in DOMAIN volume_df :
           /\ volume_df[i].supply_demand_score = 45
           /\ volume_df[i].ticker \in TickersOf(holdings_df)
           /\ volume_df[i].ticker \notin TickersOf(results)
           /\ volume_df[i].ticker \notin TickersOf(fetch_log)

\* C5: after run_screening the i-th record has rank i (the ranks are
\* 1..n, no gap, no repeat) and a record of smaller rank has a
\* composite_score at least as high
C5_SortedAndRanked ==
    s_pc = "done" =>
        /\ \A i \in DOMAIN results : results[i].rank = i
        /\ {results[i].rank : i \in DOMAIN results} = 1..Len(results)
        /\ \A i, j \in DOMAIN results :
               results[i].rank < results[j].rank
                   => results[i].composite_score >= results[j].composite_score

\* a finished run in which the sort moved the second ticker to rank 1
C5_Witness ==
    /\ s_pc = "done"
    /\ Len(results) = 2
    /\ results[1].ticker = TickerPool[2]
    /\ results[1].rank = 1
    /\ results[2].rank = 2
    /\ results[1].composite_score > results[2].composite_score

\* the cases in which an enrichment is unavailable
TechUnavailable(t) == t.raises \/ t.rows < 50

RsUnavailable(r) == r.raises \/ r.rows < 20 \/ spy_data < 20

RecordsOf(ticker) == {i \in DOMAIN results : results[i].ticker = ticker}

RowsOf(ticker) == {i \in DOMAIN filtered : filtered[i].ticker = ticker}

MaxWords == 3

\* words of the summaries: keywords of every list, in two spellings, inside
\* longer words, and a word of no list
AIWords ==
    {"Strong", "buy", "BUY", "buyer", "maesu", "jeokgeuk", "high", "conviction",
     "sell", "risk", "brisk", "Growth", "upside", "decline", "stable"}

RECURSIVE TextsUpTo(_)
TextsUpTo(n) ==
    IF n = 0 THEN {<<>>}
    ELSE TextsUpTo(n - 1)
         \cup {Append(t, w) : t \in {u \in TextsUpTo(n - 1) : Len(u) = n - 1},
                               w \in AIWords}

\* None, the empty text, the two placeholders, a placeholder in another
\* spelling, every text of up to MaxWords words
AISummaries ==
    {NoText, API_KEY_MISSING, ANALYSIS_FAILED, Text(<<"api", "key", "missing">>)}
    \cup {Text(t) : t \in TextsUpTo(MaxWords)}

AIInit ==
    /\ ai_in \in AISummaries
    /\ ai_out = [ai_score |-> 0, rec |-> "none", scanned |-> FALSE]
    /\ GradeIdle
    /\ ScoreIdle
    /\ ScreenIdle
    /\ VolumeIdle
    /\ ReportIdle
    /\ ExtIdle
    /\ LateIdle

\* one call
ScoreSummary ==
    /\ ai_out.rec = "none"
    /\ ai_out' = calculate_ai_score(ai_in)
    /\ UNCHANGED ai_in
    /\ UNCHANGED notAI

AINext == ScoreSummary

SpecAI == AIInit /\ [][AINext]_vars

\* the branch the claim names for a lowered text
ExpectedBranch(ws) ==
    IF \E kw \in strong_buy_keywords : KeywordIn(kw, ws) THEN <<20, "Strong Buy">>
    ELSE IF \E kw \in buy_keywords : KeywordIn(kw, ws) THEN <<10, "Buy">>
    ELSE IF \E kw \in sell_keywords : KeywordIn(kw, ws) THEN <<-10, "Sell">>
    ELSE <<0, "Hold">>

PositiveFound(ws) == {w \in positive_words : KeywordIn(w, ws)}

NegativeFound(ws) == {w \in negative_words : KeywordIn(w, ws)}

ExpectedAdjust(ws) ==
    IF Cardinality(PositiveFound(ws)) > Cardinality(NegativeFound(ws)) THEN 5
    ELSE IF Cardinality(PositiveFound(ws)) < Cardinality(NegativeFound(ws)) THEN -5
    ELSE 0

\* C8: for a missing or empty summary and for the placeholder 'API Key
\* Missing' the result is (0, 'Hold') and no keyword scan ran; for every
\* other summary the result is the first matching branch in the order
\* strong buy (20), buy (10), sell (-10), else hold (0), plus 5 when more
\* positive than negative sentiment words are found in the text and minus
\* 5 when fewer; the score is always within [-20, 25]
C8_AiScore ==
    ai_out.rec # "none" =>
        /\ (ai_in.none \/ ai_in.words = <<>> \/ ai_in.words = <<"API", "Key", "Missing">>)
               => /\ ai_out.ai_score = 0
                  /\ ai_out.rec = "Hold"
                  /\ ~ai_out.scanned
        /\ ~(ai_in.none \/ ai_in.words = <<>> \/ ai_in.words = <<"API", "Key", "Missing">>)
               => /\ ai_out.ai_score = ExpectedBranch(Lower(ai_in.words))[1]
                                          + ExpectedAdjust(Lower(ai_in.words))
                  /\ ai_out.rec = ExpectedBranch(Lower(ai_in.words))[2]
        /\ ai_out.ai_score >= -20
        /\ ai_out.ai_score <= 25

\* 'Strong buy Growth' scored: the strong-buy branch although 'buy' is in
\* the text, and the positive word counted: (25, 'Strong Buy')
C8_Witness ==
    /\ ai_in = Text(<<"Strong", "buy", "Growth">>)
    /\ ai_out = [ai_score |-> 25, rec |-> "Strong Buy", scanned |-> TRUE]

(***************************************************************************)
(* generate_report on loaded files: SpecReport                             *)
(***************************************************************************)
\* rows of the picks file
NumPicks == 3

\* composite scores of the file, in tenths: the ends of the scale and a
\* value whose 80% has two decimals (59.2 * 0.8 = 47.36)
QuantScores == {0, 592, 1000}

\* entries of the summaries file: none, a strong buy with a positive word
\* (25), a summary in summary_ko only with a sell keyword that is also a
\* negative word (-15)
AiEntries ==
    {NoEntry,
     Entry(Text(<<"Strong", "buy", "Growth">>), NoText),
     Entry(Text(<<>>), Text(<<"risk">>))}

\* top_n: negative, none, fewer than the rows, as many, more
TopNs == {-1, 0, NumPicks - 1, NumPicks, NumPicks + 1}

ReportInit ==
    /\ \E n \in 0..NumPicks : \E q \in [1..n -> QuantScores] :
           quant_file = [i \in 1..n |-> [ticker |-> TickerPool[i],
                                          composite_score |-> q[i]]]
    /\ ai_data \in [1..NumPicks -> AiEntries]
    /\ top_n \in TopNs
    /\ r_pc = "start"
    /\ r_df = <<>>
    /\ r_i = 0
    /\ r_results = <<>>
    /\ top_picks = <<>>
    /\ GradeIdle
    /\ ScoreIdle
    /\ ScreenIdle
    /\ VolumeIdle
    /\ AIIdle
    /\ ExtIdle
    /\ LateIdle

\* the entry of ai_data for a ticker
EntryOf(ticker) ==
    ai_data[CHOOSE i \in 1..NumPicks : TickerPool[i] = ticker]

\* load_quant_data (sorted by composite_score, descending) and
\* load_ai_data; an empty table returns []
ReportLoad ==
    /\ r_pc = "start"
    /\ \E df \in SortedByComposite(quant_file) :
           /\ r_df' = df
           /\ r_pc' = IF df = <<>> THEN "done" ELSE "loop"
    /\ r_i' = 1
    /\ UNCHANGED <<quant_file, ai_data, top_n, r_results, top_picks>>
    /\ UNCHANGED notReport

\* one iteration of the loop over the rows
ReportTicker ==
    /\ r_pc = "loop"
    /\ r_i <= Len(r_df)
    /\ r_results' = Append(r_results, ReportRecord(r_df[r_i], EntryOf(r_df[r_i].ticker)))
    /\ r_i' = r_i + 1
    /\ UNCHANGED <<quant_file, ai_data, top_n, r_pc, r_df, top_picks>>
    /\ UNCHANGED notReport

\* after the loop: the sort, the truncation, the ranks
ReportFinish ==
    /\ r_pc = "loop"
    /\ r_i > Len(r_df)
    /\ r_results' = SortByFinalScore(r_results)
    /\ top_picks' = AssignPickRanks(TopN(SortByFinalScore(r_results), top_n))
    /\ r_pc' = "done"
    /\ UNCHANGED <<quant_file, ai_data, top_n, r_df, r_i>>
    /\ UNCHANGED notReport

ReportNext == ReportLoad \/ ReportTicker \/ ReportFinish

SpecReport == ReportInit /\ [][ReportNext]_vars

\* clamp(0.8 * quant_score + ai_weighted, 0, 100) of an entry, exactly, in
\* hundredths
ExactFinal(pick) ==
    LET weighted == IF pick.ai_score > 0 THEN (pick.ai_score * 20) \div 25
                    ELSE pick.ai_score
        raw == 8 * pick.quant_score + 100 * weighted
    IN  IF raw < 0 THEN 0 ELSE IF raw > 10000 THEN 10000 ELSE raw

\* the row of the loaded table an entry was made from
QuantRowOf(pick) == {i \in DOMAIN r_df : r_df[i].ticker = pick.ticker}

\* C7 as stated: every entry's final_score is exactly
\* clamp(0.8*quant_score + ai_weighted, 0, 100)
C7_FinalScoreExact ==
    \A i \in DOMAIN r_results : 10 * r_results[i].final_score = ExactFinal(r_results[i])

\* C7, amended: every entry's final_score is
\* clamp(0.8*quant_score + ai_weighted, 0, 100) rounded to one decimal (less
\* than 0.05 away from it), with quant_score the composite_score of the
\* ticker's row and ai_weighted = ai_score/25*20 for ai_score > 0 and
\* ai_score otherwise; final_score is within [0, 100]
C7_FinalScoreRounded ==
    \A i \in DOMAIN r_results :
        /\ 10 * r_results[i].final_score - ExactFinal(r_results[i]) < 5
        /\ ExactFinal(r_results[i]) - 10 * r_results[i].final_score < 5
        /\ r_results[i].final_score >= 0
        /\ r_results[i].final_score <= 1000
        /\ \A k \in QuantRowOf(r_results[i]) :
               r_results[i].quant_score = r_df[k].composite_score

\* a finished report with an entry clamped at 0 (quant 0, AI -15), one at
\* the top (quant 100, AI 25) and one that was rounded (59.2 -> 47.4)
C7_Witness ==
    /\ r_pc = "done"
    /\ \E i \in DOMAIN r_results :
           /\ r_results[i].quant_score = 0
           /\ r_results[i].ai_score = -15
           /\ r_results[i].final_score = 0
    /\ \E i \in DOMAIN r_results :
           /\ r_results[i].quant_score = 1000
           /\ r_results[i].ai_score = 25
           /\ r_results[i].final_score = 1000
    /\ \E i \in DOMAIN r_results :
           /\ r_results[i].quant_score = 592
           /\ r_results[i].ai_score = 0
           /\ r_results[i].final_score = 474

\* the entries of results that are not in the returned list
LeftOut == {i \in DOMAIN r_results :
               \A k \in DOMAIN top_picks : top_picks[k].ticker # r_results[i].ticker}

\* C9: for top_n >= 0, generate_report returns min(top_n, n) entries of the
\* n composite records, in descending order of final_score, the i-th with
\* rank i, and no record left out has a final_score above that of the last
\* entry returned
C9_TopNSortedRanked ==
    (r_pc = "done" /\ top_n >= 0) =>
        /\ Len(top_picks) = (IF top_n < Len(quant_file) THEN top_n ELSE Len(quant_file))
        /\ \A i \in DOMAIN top_picks : top_picks[i].rank = i
        /\ \A i, j \in DOMAIN top_picks :
               i < j => top_picks[i].final_score >= top_picks[j].final_score
        /\ \A i \in DOMAIN top_picks :
               \E k \in DOMAIN r_results :
                   /\ r_results[k].ticker = top_picks[i].ticker
                   /\ r_results[k].final_score = top_picks[i].final_score
        /\ top_picks # <<>> =>
               \A i \in LeftOut :
                   r_results[i].final_score <= top_picks[Len(top_picks)].final_score

\* a report of the top two of three records: the loop met the lowest
\* first, the two returned are in order, the one left out is below them
C9_Witness ==
    /\ r_pc = "done"
    /\ top_n = 2
    /\ Len(quant_file) = 3
    /\ Len(top_picks) = 2
    /\ top_picks[1].rank = 1
    /\ top_picks[2].rank = 2
    /\ top_picks[1].final_score > top_picks[2].final_score
    /\ Cardinality(LeftOut) = 1
    /\ \A i \in LeftOut : r_results[i].final_score < top_picks[2].final_score

(***************************************************************************)
(* GeminiGenerator.generate                                                *)
(* What the Gemini call does is the outcome o: o.step names the line the   *)
(* call leaves the try block at, o.words is the text it carries (the       *)
(* response text, or str(e) of the exception).                             *)
(***************************************************************************)
CONTENT_BLOCKED == Text(<<"Content", "blocked", "by", "safety", "filters">>)

NO_CONTENT == Text(<<"No", "content", "generated">>)

INVALID_STRUCTURE == Text(<<"Invalid", "response", "structure">>)

NO_RESPONSE == Text(<<"No", "response", "generated">>)

PACKAGE_MISSING == Text(<<"Package", "not", "installed">>)

\* f"Analysis Failed: {str(e)}"
AnalysisFailedWith(msg) == Text(<<"Analysis", "Failed:">> \o msg)

\* str.strip(): blanks are the words " "
RECURSIVE StripLeft(_)
StripLeft(ws) == IF ws # <<>> /\ Head(ws) = " " THEN StripLeft(Tail(ws)) ELSE ws

RECURSIVE StripRight(_)
StripRight(ws) ==
    IF ws # <<>> /\ ws[Len(ws)] = " "
    THEN StripRight(SubSeq(ws, 1, Len(ws) - 1))
    ELSE ws

Strip(ws) == StripRight(StripLeft(ws))

\* the try block: the value returned, or the exception that leaves it
\* (val is then str(e))
GeminiTry(o) ==
    CASE o.step = "import_error" -> [exc |-> "ImportError", val |-> NoText]
      [] o.step = "raise" -> [exc |-> "Exception", val |-> Text(o.words)]
      [] o.step = "blocked" -> [exc |-> "none", val |-> CONTENT_BLOCKED]
      [] o.step = "no_candidates" -> [exc |-> "none", val |-> NO_RESPONSE]
      [] o.step = "bad_structure" -> [exc |-> "none", val |-> INVALID_STRUCTURE]
      [] o.step = "no_parts" -> [exc |-> "none", val |-> NO_CONTENT]
      [] o.step = "parts" -> [exc |-> "none", val |-> Text(Strip(o.words))]
      [] OTHER -> [exc |-> "none", val |-> Text(Strip(o.words))]

generate(key, o) ==
    IF ~key THEN API_KEY_MISSING
    ELSE IF GeminiTry(o).exc = "ImportError" THEN PACKAGE_MISSING
    ELSE IF GeminiTry(o).exc = "Exception"
         THEN AnalysisFailedWith(GeminiTry(o).val.words)
    ELSE GeminiTry(o).val

(***************************************************************************)
(* AIStockAnalyzer                                                         *)
(* A dictionary is the list of its (ticker, entry) pairs in insertion      *)
(* order, as json.dump writes them.                                        *)
(***************************************************************************)
HasKey(d, k) == \E i \in DOMAIN d : d[i].ticker = k

DictGet(d, k) == d[CHOOSE i \in DOMAIN d : d[i].ticker = k].entry

\* every assignment appends a pair
DictSet_append(d, k, v) == Append(d, [ticker |-> k, entry |-> v])

\* d[k] = v: the value of an existing key is replaced in place, a new key
\* is appended
DictSet(d, k, v) ==
    IF HasKey(d, k)
    THEN [i \in DOMAIN d |-> IF d[i].ticker = k THEN [ticker |-> k, entry |-> v] ELSE d[i]]
    ELSE Append(d, [ticker |-> k, entry |-> v])

\* json.dump of a dictionary: its pairs in order
JsonDump(d) == d

\* json.load of an object: the pairs assigned one after the other
RECURSIVE JsonLoadInto(_, _)
JsonLoadInto(d, pairs) ==
    IF pairs = <<>> THEN d
    ELSE JsonLoadInto(DictSet(d, Head(pairs).ticker, Head(pairs).entry), Tail(pairs))

JsonLoad(pairs) == JsonLoadInto(<<>>, pairs)

\* the file does not exist (no pair was ever written): {}
load_existing_summaries(file) == IF file = <<>> THEN <<>> ELSE JsonLoad(file)

\* sort_values('composite_score', ascending=False) then head(top_n); a
\* missing file gives the empty table
load_smart_money_picks(file, n) == {TopN(s, n) : s \in SortedByComposite(file)}

AiEntry(ko, en, news_count, now) ==
    [summary |-> ko, summary_ko |-> ko, summary_en |-> en,
     news_count |-> news_count, updated |-> now]

(***************************************************************************)
(* SpecAIRun: AIStockAnalyzer.run called again and again, the screener     *)
(* rewriting the picks file between runs.                                  *)
(***************************************************************************)
\* the number of runs
MaxRuns == 2

AiTickers == {"AAA", "BBB"}

\* picks files: up to two rows of distinct tickers, equal and unequal scores
PicksFiles ==
    {<<>>}
    \cup {<<[ticker |-> t, composite_score |-> 600]>> : t \in AiTickers}
    \cup {<<[ticker |-> t, composite_score |-> 600],
            [ticker |-> u, composite_score |-> c]>> :
            <<t, u, c>> \in {x \in AiTickers \X AiTickers \X {600, 700} : x[1] # x[2]}}

\* --top: none, one, every pick
AiTopNs == {0, 1, 20}

\* what one pass of the loop meets: the number of news items, the outcome
\* of the Korean call, the outcome of the English call
AiCalls ==
    {[news |-> 0, ko |-> [step |-> "blocked", words |-> <<>>],
      en |-> [step |-> "no_candidates", words |-> <<>>]],
     [news |-> 1, ko |-> [step |-> "raise", words |-> <<"quota">>],
      en |-> [step |-> "raise", words |-> <<"quota">>]],
     [news |-> 1, ko |-> [step |-> "text", words |-> <<" ", "hold", " ">>],
      en |-> [step |-> "parts", words |-> <<"hold">>]]}

AIRunInit ==
    /\ api_key \in BOOLEAN
    /\ picks_file \in PicksFiles
    /\ summaries_file = <<>>
    /\ a_args = [top_n |-> 0, skip_existing |-> TRUE]
    /\ a_pc = "idle"
    /\ a_df = <<>>
    /\ a_i = 0
    /\ a_results = <<>>
    /\ a_clock = 0
    /\ a_calls = <<>>
    /\ a_before = <<>>
    /\ BaseIdle
    /\ LateIdle
    /\ PipeIdle
    /\ RerunIdle
    /\ CsvIdle
    /\ GenIdle
    /\ InstIdle

\* EnhancedSmartMoneyScreener.run writes a new picks file
PicksRewritten ==
    /\ a_pc = "idle"
    /\ picks_file' \in PicksFiles \ {picks_file}
    /\ UNCHANGED <<api_key, summaries_file, a_args, a_pc, a_df, a_i, a_results,
                   a_clock, a_calls, a_before>>
    /\ UNCHANGED notAIRun

\* run(top_n, skip_existing) up to the loop
AIRunStart ==
    /\ a_pc = "idle"
    /\ a_clock < MaxRuns
    /\ \E n \in AiTopNs, skip \in BOOLEAN :
       \E df \in load_smart_money_picks(picks_file, n) :
        /\ a_args' = [top_n |-> n, skip_existing |-> skip]
        /\ a_df' = df
        /\ IF df = <<>>
           THEN /\ a_pc' = "idle"
                /\ a_results' = <<>>
                /\ a_i' = 0
           ELSE /\ a_pc' = "loop"
                /\ a_results' = load_existing_summaries(summaries_file)
                /\ a_i' = 1
    /\ a_clock' = a_clock + 1
    /\ a_calls' = <<>>
    /\ a_before' = summaries_file
    /\ UNCHANGED <<api_key, picks_file, summaries_file>>
    /\ UNCHANGED notAIRun

\* one pass of the loop
AIRunTicker ==
    /\ a_pc = "loop"
    /\ a_i <= Len(a_df)
    /\ IF a_args.skip_existing /\ HasKey(a_results, a_df[a_i].ticker)
       THEN UNCHANGED <<a_results, a_calls>>
       ELSE \E c \in AiCalls :
               /\ a_results' =
                      DictSet(a_results, a_df[a_i].ticker,
                              AiEntry(generate(api_key, c.ko), generate(api_key, c.en),
                                      c.news, a_clock))
               /\ a_calls' = Append(a_calls, a_df[a_i].ticker)
    /\ a_i' = a_i + 1
    /\ UNCHANGED <<api_key, picks_file, summaries_file, a_args, a_pc, a_df,
                   a_clock, a_before>>
    /\ UNCHANGED notAIRun

\* if results: json.dump(results, f)
AIRunSave ==
    /\ a_pc = "loop"
    /\ a_i > Len(a_df)
    /\ summaries_file' = IF a_results # <<>> THEN JsonDump(a_results) ELSE summaries_file
    /\ a_pc' = "idle"
    /\ UNCHANGED <<api_key, picks_file, a_args, a_df, a_i, a_results, a_clock,
                   a_calls, a_before>>
    /\ UNCHANGED notAIRun

AIRunNext == PicksRewritten \/ AIRunStart \/ AIRunTicker \/ AIRunSave

SpecAIRun == AIRunInit /\ [][AIRunNext]_vars

Pairs(d) == {d[i] : i \in DOMAIN d}

Keys(d) == {d[i].ticker : i \in DOMAIN d}

UniqueTickers(d) == \A i, j \in DOMAIN d : d[i].ticker = d[j].ticker => i = j

RunEnded == a_pc = "idle" /\ a_clock > 0

\* C11: the summary store never holds two entries of one ticker and is
\* written only at the end of a run; after a run with skip_existing every
\* pair the store held is still there unchanged, generate was called only
\* for top-N tickers that had no entry, and every new pair is one of
\* those; after a run with refresh every pair of a ticker outside the
\* top-N is unchanged, no pair of such a ticker was added, and each top-N
\* ticker has the entry of this run.
C11_StoreUpsert ==
    /\ UniqueTickers(summaries_file)
    /\ a_pc = "loop" => summaries_file = a_before
    /\ (RunEnded /\ a_args.skip_existing) =>
        /\ Pairs(a_before) \subseteq Pairs(summaries_file)
        /\ \A i \in DOMAIN a_calls :
               a_calls[i] \in Keys(a_df) /\ a_calls[i] \notin Keys(a_before)
        /\ \A p \in Pairs(summaries_file) \ Pairs(a_before) :
               \E i \in DOMAIN a_calls : a_calls[i] = p.ticker
    /\ (RunEnded /\ ~a_args.skip_existing) =>
        /\ \A p \in Pairs(a_before) :
               p.ticker \notin Keys(a_df) => p \in Pairs(summaries_file)
        /\ \A p \in Pairs(summaries_file) :
               p.ticker \notin Keys(a_df) => p \in Pairs(a_before)
        /\ \A t \in Keys(a_df) :
               HasKey(summaries_file, t) /\ DictGet(summaries_file, t).updated = a_clock

\* a refresh run that overwrote the entry of a top-N ticker and kept the
\* entry of a ticker that is no longer in the top-N
C11_Witness ==
    /\ RunEnded
    /\ ~a_args.skip_existing
    /\ \E p \in Pairs(a_before) :
           /\ p.ticker \in Keys(a_df)
           /\ p \notin Pairs(summaries_file)
    /\ \E p \in Pairs(a_before) :
           /\ p.ticker \notin Keys(a_df)
           /\ p \in Pairs(summaries_file)

(***************************************************************************)
(* SpecPipe: the scripts of the pipeline run one after the other, in any   *)
(* order, on the files of the data directory.                              *)
(* The content of a file is the set of tickers it has a record for (for    *)
(* the prices file: the tickers with at least 30 rows), stamped with the   *)
(* number of the run that wrote it.                                        *)
(***************************************************************************)
\* the number of script runs
MaxStageRuns == 5

Pool == {"AAA", "BBB"}

\* PRICES_FILE, STOCKS_LIST_FILE, ETF_FLOWS_FILE, VOLUME_ANALYSIS_FILE,
\* HOLDINGS_FILE, SMART_MONEY_PICKS_FILE, AI_SUMMARIES_FILE,
\* FINAL_REPORT_FILE, SMART_MONEY_CURRENT_FILE
Files ==
    {"prices", "stocks_list", "etf_flows", "volume", "holdings", "picks",
     "summaries", "report", "dashboard"}

Stages == {"volume", "institutional", "screener", "ai_summary", "final_report"}

NoFile == [exists |-> FALSE, tickers |-> {}, stamp |-> 0]

FileOf(tickers, stamp) == [exists |-> TRUE, tickers |-> tickers, stamp |-> stamp]

\* the final report generator also writing the picks file
Outputs_shared(stage) ==
    CASE stage = "volume" -> {"volume"}
      [] stage = "institutional" -> {"holdings"}
      [] stage = "screener" -> {"picks"}
      [] stage = "ai_summary" -> {"summaries"}
      [] OTHER -> {"report", "dashboard", "picks"}

\* self.output_file (and self.dashboard_file) of each script
Outputs(stage) ==
    CASE stage = "volume" -> {"volume"}
      [] stage = "institutional" -> {"holdings"}
      [] stage = "screener" -> {"picks"}
      [] stage = "ai_summary" -> {"summaries"}
      [] OTHER -> {"report", "dashboard"}

\* the script writes content to its output files
WriteOutputs(stage, content) ==
    [f \in Files |-> IF f \in Outputs(stage) THEN content ELSE fs[f]]

\* what run_script sees of one run: the exit code of the script; what the
\* run did: the records it yielded, whether an input file was missing, its
\* output files as they were before it
Ran(stage, exit, records, missing, reads, wrote) ==
    /\ p_clock' = p_clock + 1
    /\ p_last' = [stage |-> stage, exit |-> exit, records |-> records,
                  missing |-> missing, wrote |-> wrote,
                  before |-> [f \in Outputs(stage) |-> fs[f]]]
    /\ p_reads' = p_reads \cup {<<stage, f>> : f \in reads}
    /\ p_writes' = p_writes \cup (IF wrote THEN {<<stage, f>> : f \in Outputs(stage)} ELSE {})
    /\ fs' = IF wrote THEN WriteOutputs(stage, FileOf(records, p_clock + 1)) ELSE fs

\* subprocess.run(cmd, check=True): True on exit code 0, False on
\* CalledProcessError
run_script(exit) == exit = 0

\* prices files: none, every history short, one long history, all long
PricesChoices == {NoFile, FileOf({}, 0), FileOf({"AAA"}, 0), FileOf(Pool, 0)}

\* stock lists: none, every ticker
ListChoices == {NoFile, FileOf(Pool, 0)}

\* the tickers of s that yield a record: none, one, all
Yields(s) == {{}, s \cap {"AAA"}, s}

PipeInit ==
    /\ fs = [f \in Files |-> NoFile]
    /\ p_clock = 0
    /\ p_last = [stage |-> "none"]
    /\ p_reads = {}
    /\ p_writes = {}
    /\ BaseIdle
    /\ LateIdle
    /\ AIRunIdle
    /\ RerunIdle
    /\ CsvIdle
    /\ GenIdle
    /\ InstIdle

\* the data collection leaves new input files (or none)
CollectData ==
    /\ p_clock < MaxStageRuns
    /\ \E prices \in PricesChoices, list \in ListChoices :
        /\ <<prices, list>> # <<fs["prices"], fs["stocks_list"]>>
        /\ fs' = [fs EXCEPT !["prices"] = prices, !["stocks_list"] = list]
    /\ UNCHANGED <<p_clock, p_last, p_reads, p_writes>>
    /\ UNCHANGED notPipe

\* 02_analyze_volume.py: load_prices raises FileNotFoundError when the
\* prices file is missing; otherwise the table of the tickers with at
\* least 30 rows is written, whatever its length
StageVolume ==
    /\ p_clock < MaxStageRuns
    /\ IF ~fs["prices"].exists
       THEN Ran("volume", 1, {}, TRUE, {}, FALSE)
       ELSE Ran("volume", 0, fs["prices"].tickers, FALSE, {"prices"}, TRUE)
    /\ UNCHANGED notPipe

\* 03_analyze_13f.py: the tickers of the stock list (a built-in list when
\* the file is missing), a record for each ticker whose fetch does not
\* fail, the table written if it is not empty
StageInstitutional ==
    /\ p_clock < MaxStageRuns
    /\ \E fetched \in Yields(IF fs["stocks_list"].exists
                             THEN fs["stocks_list"].tickers ELSE Pool) :
        Ran("institutional", 0, fetched, FALSE,
            IF fs["stocks_list"].exists THEN {"stocks_list"} ELSE {},
            fetched # {})
    /\ UNCHANGED notPipe

\* smart_money_screener_v2.py: load_data returns False when an input file
\* is missing; a table without records has no ticker column (load_data
\* fails on it or the merge raises); otherwise the records of the tickers
\* of both tables that pass the pre-filter, written if there are any
StageScreener ==
    /\ p_clock < MaxStageRuns
    /\ IF ~fs["volume"].exists
       THEN Ran("screener", 0, {}, TRUE, {}, FALSE)
       ELSE IF ~fs["holdings"].exists
       THEN Ran("screener", 0, {}, TRUE, {"volume"}, FALSE)
       ELSE IF fs["volume"].tickers = {}
       THEN \E exit \in {0, 1} : Ran("screener", exit, {}, FALSE, {"volume"}, FALSE)
       ELSE \E passing \in Yields(fs["volume"].tickers \cap fs["holdings"].tickers) :
               Ran("screener", 0, passing, FALSE,
                   {"volume", "holdings"}
                       \cup (IF fs["etf_flows"].exists THEN {"etf_flows"} ELSE {}),
                   passing # {})
    /\ UNCHANGED notPipe

\* ai_summary_generator.py: no picks, nothing written; otherwise the
\* entries of the store and of the top-N tickers are written
StageAISummary ==
    /\ p_clock < MaxStageRuns
    /\ IF ~fs["picks"].exists
       THEN Ran("ai_summary", 0, {}, TRUE, {}, FALSE)
       ELSE \E df \in {{}, fs["picks"].tickers} :
               Ran("ai_summary", 0,
                   IF df = {} THEN {} ELSE fs["summaries"].tickers \cup df,
                   FALSE,
                   {"picks"} \cup (IF df # {} /\ fs["summaries"].exists
                                   THEN {"summaries"} ELSE {}),
                   df # {})
    /\ UNCHANGED notPipe

\* final_report_generator.py: no picks, nothing written; otherwise the
\* top-N entries are written to the report and to the dashboard file
StageFinalReport ==
    /\ p_clock < MaxStageRuns
    /\ IF ~fs["picks"].exists
       THEN Ran("final_report", 0, {}, TRUE, {}, FALSE)
       ELSE \E picked \in {{}, fs["picks"].tickers} :
               Ran("final_report", 0, picked, FALSE,
                   {"picks"} \cup (IF fs["summaries"].exists THEN {"summaries"} ELSE {}),
                   picked # {})
    /\ UNCHANGED notPipe

PipeNext ==
    \/ CollectData
    \/ StageVolume
    \/ StageInstitutional
    \/ StageScreener
    \/ StageAISummary
    \/ StageFinalReport

SpecPipe == PipeInit /\ [][PipeNext]_vars

StageRan == p_last.stage # "none"

\* C12: after a run that failed or yielded no records, each output file
\* that a previous run had left has the content it had before the run (the
\* content a dependent stage then reads).
C12_StaleOutputKept ==
    (StageRan /\ (p_last.exit # 0 \/ p_last.records = {})) =>
        \A f \in Outputs(p_last.stage) :
            p_last.before[f].exists => fs[f] = p_last.before[f]

\* the files no script of the five stages writes: they come from the data
\* collection and the ETF flow analysis
ExternalInputs == {"prices", "stocks_list", "etf_flows"}

WritersOf(f) == {s \in Stages : <<s, f>> \in p_writes}

\* s feeds t: t has read a file that s has written
Feeds == {e \in Stages \X Stages :
            /\ e[1] # e[2]
            /\ \E f \in Files : <<e[1], f>> \in p_writes /\ <<e[2], f>> \in p_reads}

PipelineOrder ==
    {<<"volume", "screener">>, <<"institutional", "screener">>,
     <<"screener", "ai_summary">>, <<"screener", "final_report">>,
     <<"ai_summary", "final_report">>}

\* C13: whatever the order of the runs, a file has at most one writing
\* stage, a stage writes no external input and no file it reads that
\* another stage writes, and the feeds relation between the stages stays
\* within volume, institutional -> screener -> ai_summary -> final_report
\* (screener -> final_report included), which has no cycle.
C13_SingleWriterDag ==
    /\ \A f \in Files : Cardinality(WritersOf(f)) <= 1
    /\ \A w \in p_writes :
           /\ w[2] \notin ExternalInputs
           /\ w \in p_reads => WritersOf(w[2]) = {w[1]}
    /\ Feeds \subseteq PipelineOrder

\* every stage has run and every edge of the order has been exercised
C13_Witness ==
    /\ Feeds = PipelineOrder
    /\ fs["report"].exists
    /\ fs["dashboard"] = fs["report"]

\* C19: the driver is told that a stage failed exactly when the run
\* yielded no record or an input file was missing, and a run that yields a
\* record writes its output and ends successfully.
C19_FailureIffNothingYielded ==
    StageRan =>
        /\ ~run_script(p_last.exit) <=> (p_last.records = {} \/ p_last.missing)
        /\ p_last.records # {} => (p_last.wrote /\ run_script(p_last.exit))

(***************************************************************************)
(* SpecRerun: the screener run twice on the same upstream tables, the      *)
(* enrichment calls of the second run fetching what those of the first     *)
(* fetched.  Each run is a new process: nothing but the files and the      *)
(* fetched data is carried over.  sort_values is a fixed routine: which    *)
(* order it leaves equal scores in is not specified, but it is the same     *)
(* order whenever it is given the same rows.                               *)
(***************************************************************************)
\* the rows of seq in the order of the arrangement p of their positions
Arranged(seq, p) == [i \in 1..Len(seq) |-> seq[p[i]]]

\* the descending arrangement that leaves equal scores in the order of the
\* rows (rule "keep") or in the opposite order (rule "reverse")
SortRoutine(rule, seq) ==
    Arranged(seq,
        CHOOSE p \in Permutations(1..Len(seq)) :
            \A i, j \in 1..Len(seq) :
                i < j =>
                    \/ seq[p[i]].composite_score > seq[p[j]].composite_score
                    \/ /\ seq[p[i]].composite_score = seq[p[j]].composite_score
                       /\ (p[i] < p[j]) <=> (rule = "keep"))

\* the list of the first run carried into the second
NewResults_kept == results

\* results = []
NewResults == <<>>

RerunVolumeChoices == {-1, 50, 60}

\* what the calls of the first run fetch: the technical history scored,
\* too short, failing
RerunEnrichments ==
    {en \in ScreenEnrichments :
        en.fund = QuietFund /\ en.analyst = QuietAnalyst /\ en.rs = QuietRS}

RerunInit ==
    /\ \E c \in [1..NumTickers -> RerunVolumeChoices] : volume_df = VolumeRows(c, 1)
    /\ holdings_df = HoldingsRows([i \in 1..NumTickers |-> 70], 1)
    /\ spy_data \in ScreenSpy
    /\ s_pc = "start"
    /\ filtered = <<>>
    /\ s_i = 0
    /\ results = <<>>
    /\ fetch_log = <<>>
    /\ rr_run = 1
    /\ rr_prev = [pc |-> "none", results |-> <<>>]
    /\ rr_data = <<>>
    /\ rr_sort \in {"keep", "reverse"}
    /\ GradeIdle
    /\ ScoreIdle
    /\ VolumeIdle
    /\ AIIdle
    /\ ReportIdle
    /\ AIRunIdle
    /\ PipeIdle
    /\ CsvIdle
    /\ GenIdle
    /\ InstIdle
    /\ LateIdle

\* one iteration: the first run fetches, the second is given the same data
RerunTicker ==
    /\ s_pc = "loop"
    /\ s_i <= Len(filtered)
    /\ IF rr_run = 1
       THEN \E en \in RerunEnrichments : ScreenIteration(en)
       ELSE ScreenIteration([tech |-> rr_data[s_i].tech, fund |-> rr_data[s_i].fund,
                             analyst |-> rr_data[s_i].analyst, rs |-> rr_data[s_i].rs])
    /\ UNCHANGED <<volume_df, holdings_df, spy_data, filtered>>
    /\ UNCHANGED rerunVars
    /\ UNCHANGED notRerun

\* the sort and the ranks
RerunSort ==
    /\ s_pc = "loop"
    /\ s_i > Len(filtered)
    /\ results' = AssignRanks(SortRoutine(rr_sort, results))
    /\ s_pc' = "done"
    /\ UNCHANGED <<volume_df, holdings_df, spy_data, filtered, s_i, fetch_log>>
    /\ UNCHANGED rerunVars
    /\ UNCHANGED notRerun

\* the screener is started again: load_data reads the same tables
RerunAgain ==
    /\ s_pc \in {"done", "raised"}
    /\ rr_run = 1
    /\ rr_run' = 2
    /\ rr_prev' = [pc |-> s_pc, results |-> results]
    /\ rr_data' = fetch_log
    /\ s_pc' = "start"
    /\ filtered' = <<>>
    /\ s_i' = 0
    /\ results' = NewResults
    /\ fetch_log' = <<>>
    /\ UNCHANGED <<volume_df, holdings_df, spy_data, rr_sort>>
    /\ UNCHANGED notRerun

RerunNext == ScreenMerge \/ RerunTicker \/ RerunSort \/ RerunAgain

SpecRerun == RerunInit /\ [][RerunNext]_vars

SecondRunEnded == rr_run = 2 /\ s_pc \in {"done", "raised"}

StrCell(s) == [numeric |-> FALSE, text |-> s, whole |-> 0, frac |-> -1]

IntCell(n) == [numeric |-> TRUE, text |-> "", whole |-> n, frac |-> -1]

\* repr of a float with one decimal, n in tenths: 592 is written 59.2
FloatCell(n) == [numeric |-> TRUE, text |-> "", whole |-> n \div 10, frac |-> n % 10]

\* a field that holds a number or 'N/A'
NumOrNaCell(v) == IF v.na THEN StrCell("N/A") ELSE IntCell(v.num)

\* to_csv(index=False) of one result record
to_csv(rec) ==
    [ticker |-> StrCell(rec.ticker),
     name |-> StrCell(rec.name),
     composite_score |-> FloatCell(rec.composite_score),
     grade |-> StrCell(rec.grade),
     sd_score |-> IntCell(rec.sd_score),
     inst_score |-> IntCell(rec.inst_score),
     tech_score |-> IntCell(rec.tech_score),
     fund_score |-> IntCell(rec.fund_score),
     analyst_score |-> IntCell(rec.analyst_score),
     rs_score |-> IntCell(rec.rs_score),
     target_price |-> NumOrNaCell(rec.target_price),
     recommendation |-> StrCell(rec.recommendation),
     ma_signal |-> StrCell(rec.ma_signal),
     cross_signal |-> StrCell(rec.cross_signal),
     pe_ratio |-> NumOrNaCell(rec.pe_ratio),
     rank |-> IntCell(rec.rank)]

\* the strings read_csv takes for a missing value whatever the pandas
\* release (the empty cell is one of them)
NaStrings ==
    {"", "#N/A", "#N/A N/A", "#NA", "-1.#IND", "-1.#QNAN", "-NaN", "-nan",
     "1.#IND", "1.#QNAN", "<NA>", "N/A", "NA", "NULL", "NaN", "n/a", "nan",
     "null"}

NaN == [kind |-> "nan", num |-> 0, str |-> ""]

NumberRead(tenths) == [kind |-> "num", num |-> tenths, str |-> ""]

StrRead(s) == [kind |-> "str", num |-> 0, str |-> s]

\* read_csv of one cell with the default na_values; none_is_na tells
\* whether the installed pandas also takes 'None' for a missing value
ReadCell(cell, none_is_na) ==
    IF cell.numeric
    THEN NumberRead(IF cell.frac < 0 THEN cell.whole * 10
                    ELSE cell.whole * 10 + cell.frac)
    ELSE IF cell.text \in NaStrings \/ (none_is_na /\ cell.text = "None") THEN NaN
    ELSE StrRead(cell.text)

read_csv(file, none_is_na) ==
    [f \in DOMAIN file |-> ReadCell(file[f], none_is_na)]

(***************************************************************************)
(* SpecCsv: one record of the screener written and read back               *)
(***************************************************************************)
\* analyst data with a price target (in whole dollars)
TargetAnalyst == [QuietAnalyst EXCEPT !.target_price = 12]

\* a golden cross: 205 rows, the 50-day average crossing the 200-day one
CrossTech ==
    [ScoredTech EXCEPT !.rows = CROSS_ROWS + 5, !.ma50 = 2, !.ma200 = 1,
                       !.ma50_prev = 1, !.ma200_prev = 2]

CsvEnrichments ==
    ScreenEnrichments
    \cup {[tech |-> t, fund |-> QuietFund, analyst |-> TargetAnalyst, rs |-> QuietRS] :
            t \in {ScoredTech, CrossTech}}

\* the records run_screening builds, ranked
CsvRecords ==
    {[ResultRecord([ticker |-> "AAA", name |-> "AAA", supply_demand_score |-> sd,
                    institutional_score |-> inst],
                   get_technical_analysis(en.tech).val,
                   get_fundamental_analysis(en.fund).val,
                   get_analyst_ratings(en.analyst, "AAA").val,
                   get_relative_strength(en.rs, 63).val) EXCEPT !.rank = 1] :
        sd \in {50, 60, 100}, inst \in {50, 70}, en \in CsvEnrichments}

CsvInit ==
    /\ csv_rec \in CsvRecords
    /\ csv_file = <<>>
    /\ csv_back = <<>>
    /\ BaseIdle
    /\ LateIdle
    /\ AIRunIdle
    /\ PipeIdle
    /\ RerunIdle
    /\ GenIdle
    /\ InstIdle

\* results_df.to_csv(self.output_file, index=False)
CsvWrite ==
    /\ csv_file = <<>>
    /\ csv_file' = to_csv(csv_rec)
    /\ UNCHANGED <<csv_rec, csv_back>>
    /\ UNCHANGED notCsv

\* df = pd.read_csv(SMART_MONEY_PICKS_FILE)
CsvRead ==
    /\ csv_file # <<>>
    /\ csv_back = <<>>
    /\ \E none_is_na \in BOOLEAN : csv_back' = read_csv(csv_file, none_is_na)
    /\ UNCHANGED <<csv_rec, csv_file>>
    /\ UNCHANGED notCsv

CsvNext == CsvWrite \/ CsvRead

SpecCsv == CsvInit /\ [][CsvNext]_vars

StringFields == {"ticker", "name", "grade", "recommendation", "ma_signal", "cross_signal"}

ScoreFields ==
    {"sd_score", "inst_score", "tech_score", "fund_score", "analyst_score",
     "rs_score", "rank"}

PlaceholderFields == {"target_price", "pe_ratio"}

\* C15: a record read back from the picks file has the field values that
\* were written: the same strings (placeholders and the empty name
\* included), the same numbers, and 'N/A' where 'N/A' was written.
C15_RoundTrip ==
    csv_back # <<>> =>
        /\ \A f \in StringFields : csv_back[f] = StrRead(csv_rec[f])
        /\ \A f \in ScoreFields : csv_back[f] = NumberRead(10 * csv_rec[f])
        /\ csv_back.composite_score = NumberRead(csv_rec.composite_score)
        /\ \A f \in PlaceholderFields :
               csv_back[f] = IF csv_rec[f].na THEN StrRead("N/A")
                             ELSE NumberRead(10 * csv_rec[f].num)

(***************************************************************************)
(* SpecGen: one pass of the AI summary loop for a ticker, then the score   *)
(* the final report derives from the stored entry                          *)
(***************************************************************************)
\* the longest exception message, in words
MaxMsgWords == 2

MsgWords == {"quota", "exceeded", "risk", "aggressive", "growth"}

RECURSIVE MessagesUpTo(_)
MessagesUpTo(n) ==
    IF n = 0 THEN {<<>>}
    ELSE MessagesUpTo(n - 1)
         \cup {Append(m, w) : m \in {x \in MessagesUpTo(n - 1) : Len(x) = n - 1},
                              w \in MsgWords}

\* what a Gemini call can meet: every way out of the try block
GenOutcomes ==
    {[step |-> s, words |-> <<>>] :
        s \in {"import_error", "blocked", "no_candidates", "bad_structure", "no_parts"}}
    \cup {[step |-> "raise", words |-> m] : m \in MessagesUpTo(MaxMsgWords)}
    \cup {[step |-> s, words |-> w] :
            s \in {"text", "parts"},
            w \in {<<"hold">>, <<" ", "Strong", "BUY", " ">>, <<"risk", "growth">>}}

GenInit ==
    /\ gen_call \in [key : BOOLEAN, ko : GenOutcomes,
                     en : {[step |-> "text", words |-> <<"hold">>],
                           [step |-> "raise", words |-> <<>>]}]
    /\ gen_entry = <<>>
    /\ gen_score = <<>>
    /\ BaseIdle
    /\ LateIdle
    /\ AIRunIdle
    /\ PipeIdle
    /\ RerunIdle
    /\ CsvIdle
    /\ InstIdle

\* the two generate calls and results[ticker] = {...}
GenPass ==
    /\ gen_entry = <<>>
    /\ gen_entry' = AiEntry(generate(gen_call.key, gen_call.ko),
                            generate(gen_call.key, gen_call.en), 0, 1)
    /\ UNCHANGED <<gen_call, gen_score>>
    /\ UNCHANGED notGen

\* generate_report: the summary of the entry and calculate_ai_score
GenScore ==
    /\ gen_entry # <<>>
    /\ gen_score = <<>>
    /\ gen_score' = calculate_ai_score(SummaryOf(Entry(gen_entry.summary,
                                                       gen_entry.summary_ko)))
    /\ UNCHANGED <<gen_call, gen_entry>>
    /\ UNCHANGED notGen

GenNext == GenPass \/ GenScore

SpecGen == GenInit /\ [][GenNext]_vars

\* the Korean call did not produce a text
GenerationFailed == ~gen_call.key \/ gen_call.ko.step \notin {"text", "parts"}

Abs(n) == IF n < 0 THEN -n ELSE n

\* C16: when the generation fails, for whatever cause and with whatever
\* exception message, an entry is stored with a text (the sentinel) as its
\* summary, and the ai_score derived from it is within [-5, 5].
C16_FailureNearNeutral ==
    (GenerationFailed /\ gen_score # <<>>) =>
        /\ ~gen_entry.summary.none
        /\ gen_entry.summary.words # <<>>
        /\ Abs(gen_score.ai_score) <= 5

(***************************************************************************)
(* SpecReport: the entries without an AI contribution                      *)
(***************************************************************************)
NeutralEntries == {i \in DOMAIN r_results : r_results[i].ai_score = 0}

\* C17 as stated: for an entry with ai_score 0 the stored final_score is
\* exactly 0.8 * quant_score (which is within [0, 100])
C17_NeutralExact ==
    \A i \in NeutralEntries : 10 * r_results[i].final_score = 8 * r_results[i].quant_score

\* C17, amended: for an entry with ai_score 0 the stored final_score is
\* 0.8 * quant_score rounded to one decimal: less than 0.05 away from it,
\* equal to it when 0.8 * quant_score has one decimal, and never above 80
C17_NeutralRounded ==
    \A i \in NeutralEntries :
        /\ 10 * r_results[i].final_score - 8 * r_results[i].quant_score < 5
        /\ 8 * r_results[i].quant_score - 10 * r_results[i].final_score < 5
        /\ (8 * r_results[i].quant_score) % 10 = 0 =>
               10 * r_results[i].final_score = 8 * r_results[i].quant_score
        /\ r_results[i].final_score <= 800

\* a report with two entries of ai_score 0: 100.0 stored as 80.0, and 59.2
\* (47.36) stored as 47.4
C17_Witness ==
    /\ r_pc = "done"
    /\ \E i, j \in NeutralEntries :
           /\ r_results[i].quant_score = 1000
           /\ r_results[i].final_score = 800
           /\ r_results[j].quant_score = 592
           /\ r_results[j].final_score = 474

(***************************************************************************)
(* SpecGrade: a weighted sum halfway between two tenths                    *)
(***************************************************************************)
HalfwayScored == g_in = HalfwayScores /\ g_out # NoResult

\* C18 as stated: sub-scores 60, 70, 55, 65, 50, 45 give the composite
\* 59.25, stored as composite_score 59.3 with grade C
C18_HalfwayUp ==
    HalfwayScored =>
        /\ g_out.composite = Fl(5925, 0)
        /\ g_out.composite_score = 593
        /\ g_out.grade = "C"

\* C18, amended: sub-scores 60, 70, 55, 65, 50, 45 give the composite
\* 59.25 (exactly, in double arithmetic), stored as composite_score 59.2
\* (round sends the tie to the even digit) with grade C
C18_HalfwayToEven ==
    HalfwayScored =>
        /\ g_out.composite = Fl(5925, 0)
        /\ g_out.composite_score = 592
        /\ g_out.grade = "C"

\* the scenario computed
C18_Witness ==
    /\ HalfwayScored
    /\ g_out.composite.h = 5925
    /\ g_out.composite_score = 592
    /\ g_out.grade = "C"

(***************************************************************************)
(* SEC13FAnalyzer.analyze_institutional_changes: the loop over the batch   *)
(* What the data source gives for a ticker is the fetch f: f.raises is    *)
(* TRUE when an exception leaves the outer try block (stock.info or any   *)
(* later statement), f.insider is "absent" (None or an empty table),       *)
(* "raises" or "present" (with f.buys and f.sells transactions among the   *)
(* ten most recent), f.holders is the number of institutional holders or   *)
(* -1 when that fetch raises.                                              *)
(***************************************************************************)
\* the inner try block on stock.insider_transactions
InsiderOf(f) ==
    IF f.insider = "present"
    THEN [buys |-> f.buys, sells |-> f.sells,
          sentiment |-> IF f.buys > f.sells THEN "Buying"
                        ELSE IF f.sells > f.buys THEN "Selling"
                        ELSE "Neutral"]
    ELSE [buys |-> 0, sells |-> 0, sentiment |-> "Unknown"]

\* the inner try block on stock.institutional_holders
HoldersOf(f) == IF f.holders < 0 THEN 0 ELSE f.holders

\* the dict appended for a ticker whose fetch did not fail
InstitutionalEntry(ticker, f) ==
    [insider_sentiment |-> InsiderOf(f).sentiment,
     num_inst_holders |-> HoldersOf(f)]
    @@ InstitutionalRecord(ticker,
                           [inst_pct |-> f.inst_pct, short_pct |-> f.short_pct,
                            buys |-> InsiderOf(f).buys, sells |-> InsiderOf(f).sells])

\* a failure that ends the loop with nothing
InstLoopBody_drop_batch(res, ticker, f) ==
    IF f.raises THEN <<>> ELSE Append(res, InstitutionalEntry(ticker, f))

\* one pass of the loop: except Exception: continue
InstLoopBody(res, ticker, f) ==
    IF f.raises THEN res ELSE Append(res, InstitutionalEntry(ticker, f))

(***************************************************************************)
(* SpecInst: analyze_institutional_changes on a batch of tickers           *)
(***************************************************************************)
\* the number of tickers of the batch
NumBatchTickers == 3

\* a fetch that fails; ownership high or low and short interest low or
\* high, with insider transactions absent, failing, balanced, buying,
\* selling
InstFetches ==
    {[raises |-> TRUE, inst_pct |-> 0, short_pct |-> 0, insider |-> "absent",
      buys |-> 0, sells |-> 0, holders |-> 0]}
    \cup {[raises |-> FALSE, inst_pct |-> p[1], short_pct |-> p[2], insider |-> "present",
           buys |-> b[1], sells |-> b[2], holders |-> 10] :
            p \in {<<85, 2>>}, b \in {<<1, 1>>, <<2, 1>>, <<0, 3>>}}
    \cup {[raises |-> FALSE, inst_pct |-> p[1], short_pct |-> p[2], insider |-> k,
           buys |-> 0, sells |-> 0, holders |-> h] :
            p \in {<<85, 2>>, <<20, 15>>}, k \in {"absent", "raises"}, h \in {-1, 10}}

InstInit ==
    /\ i_fetch \in [1..NumBatchTickers -> InstFetches]
    /\ i_pc = "loop"
    /\ i_i = 1
    /\ i_results = <<>>
    /\ i_log = <<>>
    /\ BaseIdle
    /\ LateIdle
    /\ AIRunIdle
    /\ PipeIdle
    /\ RerunIdle
    /\ CsvIdle
    /\ GenIdle

\* one ticker of the batch: its data is fetched once
InstTicker ==
    /\ i_pc = "loop"
    /\ i_i <= NumBatchTickers
    /\ i_log' = Append(i_log, TickerPool[i_i])
    /\ i_results' = InstLoopBody(i_results, TickerPool[i_i], i_fetch[i_i])
    /\ i_i' = i_i + 1
    /\ UNCHANGED <<i_fetch, i_pc>>
    /\ UNCHANGED notInst

\* return pd.DataFrame(results)
InstReturn ==
    /\ i_pc = "loop"
    /\ i_i > NumBatchTickers
    /\ i_pc' = "done"
    /\ UNCHANGED <<i_fetch, i_i, i_results, i_log>>
    /\ UNCHANGED notInst

InstNext == InstTicker \/ InstReturn

SpecInst == InstInit /\ [][InstNext]_vars

\* the records of the k-th ticker of the batch
InstRecordsOf(k) == {j \in DOMAIN i_results : i_results[j].ticker = TickerPool[k]}

\* the score of a fetch whose insider transactions balance
BalancedScore(f) ==
    InstitutionalScore([inst_pct |-> f.inst_pct, short_pct |-> f.short_pct,
                        buys |-> 1, sells |-> 1])

\* C20: each ticker of the batch is fetched once, in order; a ticker whose
\* fetch failed has no record and every other ticker passed so far has
\* exactly one; a record made without insider transactions (absent or not
\* fetchable) has insider_sentiment 'Unknown', zero buys and sells, and the
\* score of the same data with balanced insider activity.
C20_SkipOnlyFailedTicker ==
    /\ i_log = [k \in 1..(i_i - 1) |-> TickerPool[k]]
    /\ \A k \in 1..(i_i - 1) :
           /\ Cardinality(InstRecordsOf(k)) = IF i_fetch[k].raises THEN 0 ELSE 1
           /\ \A j \in InstRecordsOf(k) :
                  i_fetch[k].insider # "present" =>
                      /\ i_results[j].insider_sentiment = "Unknown"
                      /\ i_results[j].insider_buys = 0
                      /\ i_results[j].insider_sells = 0
                      /\ i_results[j].institutional_score = BalancedScore(i_fetch[k])
    /\ \A k \in i_i..NumBatchTickers : InstRecordsOf(k) = {}

\* a finished batch whose first ticker has a record, whose second failed,
\* and whose third has a record made without insider transactions
C20_Witness ==
    /\ i_pc = "done"
    /\ i_fetch[2].raises
    /\ InstRecordsOf(2) = {}
    /\ Len(i_results) = 2
    /\ i_results[1].ticker = TickerPool[1]
    /\ i_results[2].ticker = TickerPool[3]
    /\ i_fetch[3].insider = "raises"
    /\ i_results[2].insider_sentiment = "Unknown"

(***************************************************************************)
(* VolumeAnalyzer: the indicators behind analyze_supply_demand             *)
(*                                                                         *)
(* Units.  A price is a whole number of dollars and a volume a whole       *)
(* number of shares; the rows of a ticker are in date order.  A float of   *)
(* the indicators is the exact fraction [n, d] in lowest terms with d > 0; *)
(* d = 0 stands for the values a division by zero leaves in a pandas       *)
(* Series or a numpy scalar (inf, -inf, NaN) and for the NaN of an         *)
(* incomplete rolling window.  Rounding of doubles is left out.            *)
(***************************************************************************)
RECURSIVE Gcd(_, _)
Gcd(a, b) == IF b = 0 THEN a ELSE Gcd(b, a % b)

NonFinite == [n |-> 0, d |-> 0]

Q(n, d) ==
    IF d = 0 THEN NonFinite
    ELSE [n |-> ((IF d < 0 THEN -n ELSE n) \div Gcd(Abs(n), Abs(d))),
          d |-> Abs(d) \div Gcd(Abs(n), Abs(d))]

QInt(k) == [n |-> k, d |-> 1]

QFinite(x) == x.d # 0

QAdd(x, y) ==
    IF QFinite(x) /\ QFinite(y) THEN Q(x.n * y.d + y.n * x.d, x.d * y.d)
    ELSE NonFinite

QSub(x, y) ==
    IF QFinite(x) /\ QFinite(y) THEN Q(x.n * y.d - y.n * x.d, x.d * y.d)
    ELSE NonFinite

QMul(x, y) ==
    IF QFinite(x) /\ QFinite(y) THEN Q(x.n * y.n, x.d * y.d) ELSE NonFinite

\* x / y on floats: no exception, a zero divisor leaves inf or NaN
QDiv(x, y) ==
    IF QFinite(x) /\ QFinite(y) THEN Q(x.n * y.d, x.d * y.n) ELSE NonFinite

QAbs(x) == [n |-> Abs(x.n), d |-> x.d]

\* the literal 0.0001
EPSILON == Q(1, 10000)

\* Series.replace without a replacement: the mutant of replace
replace_nothing(x, to_replace, value) == x

\* Series.replace(to_replace, value) on one element
replace(x, to_replace, value) == IF x = to_replace THEN value ELSE x

\* the running sums of a sequence of floats
RECURSIVE CumSumFrom(_, _)
CumSumFrom(s, out) ==
    IF Len(out) = Len(s) THEN out
    ELSE CumSumFrom(s, Append(out,
             IF out = <<>> THEN s[1] ELSE QAdd(out[Len(out)], s[Len(out) + 1])))

CumSum(s) == CumSumFrom(s, <<>>)

\* calculate_obv: 0, then plus or minus the volume as the price moves
RECURSIVE ObvFrom(_, _)
ObvFrom(df, obv) ==
    IF Len(obv) = Len(df) THEN obv
    ELSE LET i == Len(obv) + 1
         IN ObvFrom(df, Append(obv,
                IF df[i].current_price > df[i - 1].current_price
                THEN obv[i - 1] + df[i].volume
                ELSE IF df[i].current_price < df[i - 1].current_price
                     THEN obv[i - 1] - df[i].volume
                     ELSE obv[i - 1]))

calculate_obv(df) == ObvFrom(df, <<0>>)

high_low(row) == replace(QInt(row.high - row.low), QInt(0), EPSILON)

clv(row) ==
    QDiv(QInt((row.current_price - row.low) - (row.high - row.current_price)),
         high_low(row))

calculate_ad_line(df) ==
    CumSum([i \in 1..Len(df) |-> QMul(clv(df[i]), QInt(df[i].volume))])

typical_price(row) == Q(row.high + row.low + row.current_price, 3)

money_flow(row) == QMul(typical_price(row), QInt(row.volume))

\* typical_price.diff() at row i (NaN at the first row) compared with 0
DeltaSign(df, i) ==
    IF i = 1 THEN "nan"
    ELSE LET now_ == df[i].high + df[i].low + df[i].current_price
             was == df[i - 1].high + df[i - 1].low + df[i - 1].current_price
         IN IF now_ > was THEN "up" ELSE IF now_ < was THEN "down" ELSE "flat"

\* money_flow.where(delta > 0, 0) and money_flow.where(delta < 0, 0) at row i
Flow(df, i, sign) ==
    IF DeltaSign(df, i) = sign THEN money_flow(df[i]) ELSE QInt(0)

positive_flow(df, i) == Flow(df, i, "up")

negative_flow(df, i) == Flow(df, i, "down")

RECURSIVE SumRange(_, _, _, _)
SumRange(df, sign, lo, hi) ==
    IF lo > hi THEN QInt(0)
    ELSE QAdd(SumRange(df, sign, lo, hi - 1), Flow(df, hi, sign))

\* rolling(window=period).sum() at row i, NaN on an incomplete window
RollingSum(df, sign, i, period) ==
    IF i < period THEN NonFinite ELSE SumRange(df, sign, i - period + 1, i)

MFI_PERIOD == 14

positive_mf(df, i) == RollingSum(df, "up", i, MFI_PERIOD)

negative_mf(df, i) == RollingSum(df, "down", i, MFI_PERIOD)

\* calculate_mfi at row i
calculate_mfi(df, i) ==
    QSub(QInt(100),
         QDiv(QInt(100),
              QAdd(QInt(1),
                   QDiv(positive_mf(df, i),
                        replace(negative_mf(df, i), QInt(0), EPSILON)))))

TREND_DAYS == 20

\* s.iloc[-k]
ILocBack(s, k) == s[Len(s) - k + 1]

\* the 20-day change of an indicator series, in percent
TrendChange(s) ==
    IF Len(s) >= TREND_DAYS /\ ILocBack(s, TREND_DAYS) # QInt(0)
    THEN QMul(QDiv(QSub(ILocBack(s, 1), ILocBack(s, TREND_DAYS)),
                   QAbs(ILocBack(s, TREND_DAYS))),
              QInt(100))
    ELSE QInt(0)

\* the indicators analyze_supply_demand derives before it scores
SupplyDemandIndicators(df) ==
    IF Len(df) < MIN_ROWS THEN [kind |-> "None"]
    ELSE LET obv == calculate_obv(df)
             ad_line == calculate_ad_line(df)
             mfi == calculate_mfi(df, Len(df))
         IN [kind |-> "dict",
             clv |-> [i \in 1..Len(df) |-> clv(df[i])],
             ad_line |-> ad_line,
             obv_ref |-> ILocBack(obv, TREND_DAYS),
             ad_ref |-> ILocBack(ad_line, TREND_DAYS),
             positive_mf |-> positive_mf(df, Len(df)),
             negative_mf |-> negative_mf(df, Len(df)),
             obv_change |-> TrendChange([i \in 1..Len(obv) |-> QInt(obv[i])]),
             ad_change |-> TrendChange(ad_line),
             mfi_current |-> IF QFinite(mfi) THEN mfi ELSE QInt(50),
             mfi |-> mfi]

(***************************************************************************)
(* SpecInd: the indicators applied to one price history                    *)
(***************************************************************************)
\* rows [high, low, close, volume]: no range, no range with the close
\* outside it (an adjusted close), closes at the high and at the low, a
\* range of one dollar, a day without volume
IndRows ==
    { [high |-> 2, low |-> 2, current_price |-> 2, volume |-> 1],
      [high |-> 2, low |-> 2, current_price |-> 3, volume |-> 1],
      [high |-> 3, low |-> 1, current_price |-> 3, volume |-> 2],
      [high |-> 3, low |-> 1, current_price |-> 1, volume |-> 1],
      [high |-> 3, low |-> 2, current_price |-> 3, volume |-> 1],
      [high |-> 2, low |-> 1, current_price |-> 1, volume |-> 0] }

MaxEdge == 2

RECURSIVE RowsUpTo(_)
RowsUpTo(k) ==
    IF k = 0 THEN {<<>>}
    ELSE RowsUpTo(k - 1) \cup
         {Append(s, r) : s \in {t \in RowsUpTo(k - 1) : Len(t) = k - 1}, r \in IndRows}

\* a history of MIN_ROWS rows: a first day, a run of equal days, and up to
\* MaxEdge last days; and one history that is too short
IndHistories ==
    { head \o [i \in 1..(MIN_ROWS - Len(head) - Len(tail)) |-> mid] \o tail :
        head \in RowsUpTo(1), mid \in IndRows, tail \in RowsUpTo(MaxEdge) }
    \cup { <<r>> : r \in IndRows }

IndInit ==
    /\ ind_in \in IndHistories
    /\ ind_out = <<>>
    /\ BaseIdle
    /\ ExtIdle
    /\ DriverIdle
    /\ RetryIdle
    /\ LimiterIdle

IndAnalyze ==
    /\ ind_out = <<>>
    /\ ind_out' = SupplyDemandIndicators(ind_in)
    /\ UNCHANGED <<ind_in, notInd>>

IndNext == IndAnalyze

SpecInd == IndInit /\ [][IndNext]_vars

Analyzed == ind_out # <<>> /\ ind_out.kind = "dict"

\* C21: the A/D line is finite on every row and a row with high = low has
\* the CLV its numerator gives over 0.0001; the MFI is finite and, with no
\* negative flow in the 14 rows, is 100 - 100 / (1 + positive / 0.0001); the
\* 20-day OBV and A/D changes are finite, and 0 when the reference is 0
C21_GuardedDivisions ==
    Analyzed =>
        /\ \A i \in 1..Len(ind_in) :
              /\ QFinite(ind_out.ad_line[i])
              /\ ind_in[i].high = ind_in[i].low =>
                    ind_out.clv[i] =
                        QInt(10000 * (2 * ind_in[i].current_price
                                      - ind_in[i].low - ind_in[i].high))
        /\ QFinite(ind_out.mfi)
        /\ ind_out.mfi_current = ind_out.mfi
        /\ ind_out.negative_mf = QInt(0) =>
              ind_out.mfi =
                  QSub(QInt(100),
                       QDiv(QInt(100),
                            QAdd(QInt(1), QMul(ind_out.positive_mf, QInt(10000)))))
        /\ QFinite(ind_out.obv_change)
        /\ QFinite(ind_out.ad_change)
        /\ ind_out.obv_ref = 0 => ind_out.obv_change = QInt(0)
        /\ ind_out.ad_ref = QInt(0) => ind_out.ad_change = QInt(0)

\* C21 witness: a history with a rangeless row whose close is off the
\* range, no negative flow but some positive flow in the last 14 rows, and
\* OBV 0 twenty rows back
C21_Witness ==
    /\ Analyzed
    /\ \E i \in 1..Len(ind_in) :
          /\ ind_in[i].high = ind_in[i].low
          /\ ind_in[i].current_price # ind_in[i].low
    /\ ind_out.negative_mf = QInt(0)
    /\ ind_out.positive_mf # QInt(0)
    /\ ind_out.obv_ref = 0
    /\ ind_out.obv_change = QInt(0)

(***************************************************************************)
(* C22: the short-interest bands of the institutional score (SpecScore)    *)
(***************************************************************************)
\* the ownership and insider terms of a record's score
OwnershipTerm(rec) ==
    IF rec.institutional_pct > 80 THEN 15
    ELSE IF rec.institutional_pct > 60 THEN 10
    ELSE IF rec.institutional_pct < 30 THEN -10
    ELSE 0

InsiderTerm(rec) ==
    IF rec.insider_buys > rec.insider_sells THEN 15
    ELSE IF rec.insider_sells > rec.insider_buys THEN -10
    ELSE 0

\* the bands as stated: the tightest matching band applies
TightestShortBand(short_pct) ==
    IF short_pct > 20 THEN -20
    ELSE IF short_pct > 10 THEN -10
    ELSE IF short_pct < 3 THEN 5
    ELSE 0

\* C22: the institutional score of every record is 50 plus the ownership
\* term, the insider term and the short-interest term of the tightest
\* matching band (-20 above 20%, -10 above 10% up to 20%, +5 below 3%, else
\* 0), clamped to [0, 100]
C22_ShortInterestBands ==
    sc_kind = "institutional" =>
        sc_out.institutional_score =
            Clamp100(50 + OwnershipTerm(sc_out) + InsiderTerm(sc_out)
                     + TightestShortBand(sc_out.short_pct))

(***************************************************************************)
(* C23: the order of equal composite scores (SpecScreen)                   *)
(***************************************************************************)
\* C23: after the sort, two tickers with equal composite_score are ranked
\* in the order their rows had in the pre-filtered table
C23_TiesKeepInputOrder ==
    s_pc = "done" =>
        \A a, b \in DOMAIN filtered :
            \A i \in RecordsOf(filtered[a].ticker), j \in RecordsOf(filtered[b].ticker) :
                (a < b /\ results[i].composite_score = results[j].composite_score)
                    => results[i].rank < results[j].rank

(***************************************************************************)
(* update_all.py: main and run_script                                      *)
(* A script is its file name.  A child process is in u_running from the    *)
(* moment subprocess.run starts it until subprocess.run returns or raises  *)
(* (on a timeout subprocess.run kills the child and waits for it).  u_log  *)
(* holds one entry per run_script call, appended when the call returns.    *)
(***************************************************************************)
PART1_SCRIPTS ==
    <<"01_collect_prices.py", "02_analyze_volume.py", "03_analyze_13f.py",
      "04_etf_flows.py">>

PART2_SCRIPTS ==
    <<"smart_money_screener_v2.py", "sector_heatmap.py", "options_flow.py",
      "insider_tracker.py", "portfolio_risk.py">>

PART3_SCRIPTS ==
    <<"macro_analyzer.py", "ai_summary_generator.py", "final_report_generator.py",
      "economic_calendar.py">>

AI_SCRIPTS ==
    {"04_etf_flows.py", "macro_analyzer.py", "ai_summary_generator.py",
     "economic_calendar.py"}

\* the analysis part listed before the data collection part
ALL_SCRIPTS_analysis_first == PART2_SCRIPTS \o PART1_SCRIPTS \o PART3_SCRIPTS

ALL_SCRIPTS == PART1_SCRIPTS \o PART2_SCRIPTS \o PART3_SCRIPTS

\* --script given as "" when absent, --part as 0 when absent
NoScript == ""

ScriptsOfPart(part) ==
    IF part = 1 THEN PART1_SCRIPTS
    ELSE IF part = 2 THEN PART2_SCRIPTS
    ELSE IF part = 3 THEN PART3_SCRIPTS
    ELSE ALL_SCRIPTS

\* [s for s in scripts_to_run if s[0] == args.script]
OnlyScript(scripts, script) ==
    LET Named(s) == s = script IN SelectSeq(scripts, Named)

SelectScripts(args) ==
    IF args.script # NoScript
    THEN OnlyScript(ScriptsOfPart(args.part), args.script)
    ELSE ScriptsOfPart(args.part)

\* the loop's 'continue' for an AI script in quick mode
SkippedInQuick(args, script_name) == args.quick /\ script_name \in AI_SCRIPTS

\* run_script's result for the ways a call ends
RunScriptResult(ending) == ending = "ok"

\* the loop leaving at the first failure
AfterScript_break(i, success, n) == IF success THEN i + 1 ELSE n + 1

\* the index of the next iteration after run_script returned
AfterScript(i, success, n) == i + 1

\* main's return value without the test of failed_scripts
exit_code_zero(failed) == 0

\* main's return value after the loop
exit_code(failed) == IF failed # <<>> THEN 1 ELSE 0

\* the tallies, the log and the loop index after run_script returned
Tally(script_name, ending) ==
    /\ success_count' =
           IF RunScriptResult(ending) THEN success_count + 1 ELSE success_count
    /\ failed_scripts' =
           IF RunScriptResult(ending) THEN failed_scripts
           ELSE Append(failed_scripts, script_name)
    /\ u_log' = Append(u_log, [script |-> script_name, ok |-> RunScriptResult(ending)])
    /\ u_last' = ending
    /\ u_i' = AfterScript(u_i, RunScriptResult(ending), Len(scripts_to_run))

(***************************************************************************)
(* SpecDriver: one run of update_all.py                                    *)
(***************************************************************************)
\* command lines: with and without --quick, every --part, and --script
\* absent, naming a script of part 1, an AI script of part 3, no script
DriverArgs ==
    [quick : BOOLEAN, part : 0..3,
     script : {NoScript, "02_analyze_volume.py", "ai_summary_generator.py",
               "no_such_script.py"}]

DriverInit ==
    /\ u_args \in DriverArgs
    /\ scripts_to_run = <<>>
    /\ u_pc = "start"
    /\ u_i = 0
    /\ u_running = {}
    /\ success_count = 0
    /\ failed_scripts = <<>>
    /\ u_log = <<>>
    /\ u_exit = -1
    /\ u_last = "none"
    /\ BaseIdle
    /\ ExtIdle
    /\ IndIdle
    /\ RetryIdle
    /\ LimiterIdle

\* main up to the loop: the selection, and 'return 1' when --script names
\* no script of the selected part
DriverSelect ==
    /\ u_pc = "start"
    /\ scripts_to_run' = SelectScripts(u_args)
    /\ IF u_args.script # NoScript /\ SelectScripts(u_args) = <<>>
       THEN u_pc' = "returned" /\ u_exit' = 1 /\ u_i' = u_i
       ELSE u_pc' = "loop" /\ u_exit' = u_exit /\ u_i' = 1
    /\ UNCHANGED <<u_args, u_running, success_count, failed_scripts, u_log, u_last>>
    /\ UNCHANGED notDriver

\* an AI script in quick mode: logged and passed over
DriverSkip ==
    /\ u_pc = "loop"
    /\ u_i <= Len(scripts_to_run)
    /\ SkippedInQuick(u_args, scripts_to_run[u_i])
    /\ u_i' = u_i + 1
    /\ UNCHANGED <<u_args, scripts_to_run, u_pc, u_running, success_count,
                   failed_scripts, u_log, u_exit, u_last>>
    /\ UNCHANGED notDriver

\* run_script on a script whose file does not exist: False at once
DriverMissing ==
    /\ u_pc = "loop"
    /\ u_i <= Len(scripts_to_run)
    /\ ~SkippedInQuick(u_args, scripts_to_run[u_i])
    /\ Tally(scripts_to_run[u_i], "missing")
    /\ UNCHANGED <<u_args, scripts_to_run, u_pc, u_running, u_exit>>
    /\ UNCHANGED notDriver

\* run_script up to the start of the child process
DriverLaunch ==
    /\ u_pc = "loop"
    /\ u_i <= Len(scripts_to_run)
    /\ ~SkippedInQuick(u_args, scripts_to_run[u_i])
    /\ u_running' = u_running \cup {scripts_to_run[u_i]}
    /\ u_pc' = "child"
    /\ UNCHANGED <<u_args, scripts_to_run, u_i, success_count, failed_scripts,
                   u_log, u_exit, u_last>>
    /\ UNCHANGED notDriver

\* subprocess.run returns (exit status 0) or raises CalledProcessError
\* (another exit status) or TimeoutExpired (the child killed); run_script
\* returns, main tallies and sleeps a second
DriverChildEnds ==
    /\ u_pc = "child"
    /\ \E ending \in {"ok", "exit", "timeout"} :
           Tally(scripts_to_run[u_i], ending)
    /\ u_running' = u_running \ {scripts_to_run[u_i]}
    /\ u_pc' = "loop"
    /\ UNCHANGED <<u_args, scripts_to_run, u_exit>>
    /\ UNCHANGED notDriver

\* after the loop: the summary and the return value
DriverSummary ==
    /\ u_pc = "loop"
    /\ u_i > Len(scripts_to_run)
    /\ u_exit' = exit_code(failed_scripts)
    /\ u_pc' = "returned"
    /\ UNCHANGED <<u_args, scripts_to_run, u_i, u_running, success_count,
                   failed_scripts, u_log, u_last>>
    /\ UNCHANGED notDriver

DriverNext ==
    \/ DriverSelect
    \/ DriverSkip
    \/ DriverMissing
    \/ DriverLaunch
    \/ DriverChildEnds
    \/ DriverSummary

SpecDriver == DriverInit /\ [][DriverNext]_vars

LogEntriesOf(script_name) == {k \in DOMAIN u_log : u_log[k].script = script_name}

Finished(script_name) == LogEntriesOf(script_name) # {}

Started(script_name) == script_name \in u_running \/ Finished(script_name)

\* selected by the command line and not passed over in quick mode
Due(script_name) ==
    /\ \E k \in DOMAIN scripts_to_run : scripts_to_run[k] = script_name
    /\ ~SkippedInQuick(u_args, script_name)

\* producer before consumer, for the five stages of the pipeline
StageOrder ==
    { <<"02_analyze_volume.py", "smart_money_screener_v2.py">>,
      <<"03_analyze_13f.py", "smart_money_screener_v2.py">>,
      <<"smart_money_screener_v2.py", "ai_summary_generator.py">>,
      <<"ai_summary_generator.py", "final_report_generator.py">> }

\* C24: at most one script is running at any moment, none while main is
\* between two run_script calls, and once a consumer stage has started
\* every producer stage due in this run has finished, its log entry before
\* the consumer's
C24_OneAtATimeInOrder ==
    /\ Cardinality(u_running) <= 1
    /\ u_pc # "child" => u_running = {}
    /\ \A pair \in StageOrder :
          (Started(pair[2]) /\ Due(pair[1])) =>
              /\ Finished(pair[1])
              /\ \A i \in LogEntriesOf(pair[1]), j \in LogEntriesOf(pair[2]) : i < j

\* C24 witness: a full run at the moment the final report generator is
\* running, the four stages before it finished in pipeline order
C24_Witness ==
    /\ scripts_to_run = ALL_SCRIPTS
    /\ ~u_args.quick
    /\ u_running = {"final_report_generator.py"}
    /\ Finished("02_analyze_volume.py")
    /\ Finished("03_analyze_13f.py")
    /\ Finished("smart_money_screener_v2.py")
    /\ Finished("ai_summary_generator.py")

ScriptNames == {ALL_SCRIPTS[k] : k \in DOMAIN ALL_SCRIPTS}

\* the run_script calls made so far for a script, the one in progress included
CallsOf(script_name) ==
    Cardinality(LogEntriesOf(script_name))
    + (IF script_name \in u_running THEN 1 ELSE 0)

\* C25: no script is ever passed to run_script twice, a script that is not
\* due (not selected, or an AI script in quick mode) never at all, and when
\* main returns every due script has been run exactly once, whatever the
\* scripts before it ended with
C25_EachDueScriptOnce ==
    /\ \A name \in ScriptNames :
          /\ CallsOf(name) <= 1
          /\ CallsOf(name) = 1 => Due(name)
    /\ u_pc = "returned" =>
          \A name \in ScriptNames : Due(name) => CallsOf(name) = 1

\* C25 witness: a full run that returned after its first script failed, at
\* least one more failed, one succeeded, and the last one timed out
C25_Witness ==
    /\ u_pc = "returned"
    /\ scripts_to_run = ALL_SCRIPTS
    /\ Len(u_log) >= 9
    /\ ~u_log[1].ok
    /\ Len(failed_scripts) >= 2
    /\ success_count >= 1
    /\ u_last = "timeout"

AllSucceeded == \A k \in DOMAIN u_log : u_log[k].ok

\* --script named no script of the selected part
NothingSelected == u_args.script # NoScript /\ scripts_to_run = <<>>

\* C27 as stated: main returns 0 if and only if every script it invoked
\* succeeded
C27_ZeroIffAllSucceeded ==
    u_pc = "returned" => (u_exit = 0 <=> AllSucceeded)

\* C27: main returns 0 or 1; it returns 0 if and only if the selection was
\* not empty for a --script that names no script and every script it
\* invoked succeeded; a script passed over in quick mode is in neither
\* tally, every invoked script in exactly one
C27_ExitCode ==
    /\ success_count + Len(failed_scripts) = Len(u_log)
    /\ success_count = Cardinality({k \in DOMAIN u_log : u_log[k].ok})
    /\ \A k \in DOMAIN u_log : ~SkippedInQuick(u_args, u_log[k].script)
    /\ u_pc = "returned" =>
          /\ u_exit \in {0, 1}
          /\ u_exit = 0 <=> (AllSucceeded /\ ~NothingSelected)

\* C27 witness: a quick full run that returned 1 with one script missing
\* and every other invoked script successful
C27_Witness ==
    /\ u_pc = "returned"
    /\ u_args.quick
    /\ scripts_to_run = ALL_SCRIPTS
    /\ Len(u_log) = 9
    /\ Len(failed_scripts) = 1
    /\ u_last = "missing"
    /\ u_exit = 1

(***************************************************************************)
(* core/utils.py: retry_with_backoff                                       *)
(* One call of the wrapper.  An exception is [type, attempt]: its class    *)
(* and the attempt of func that raised it.  Delays are in hundredths of a  *)
(* second; random.random() is one of 0, 0.5 and 0.98.                      *)
(***************************************************************************)
RECURSIVE Power(_, _)
Power(b, k) == IF k = 0 THEN 1 ELSE b * Power(b, k - 1)

\* isinstance(e, exceptions) for the classes func raises
IsInstance(type, exceptions) ==
    \/ type \in exceptions
    \/ "Exception" \in exceptions /\ type \in {"ConnectionError", "ValueError"}

\* the delay without the cap of max_delay
BackoffDelay_uncapped(cfg, k) == 100 * cfg.base_delay * Power(cfg.exponential_base, k)

\* min(base_delay * (exponential_base ** attempt), max_delay)
BackoffDelay(cfg, k) ==
    100 * Min(cfg.base_delay * Power(cfg.exponential_base, k), cfg.max_delay)

\* delay * (0.5 + random.random() * 0.5), with random.random() = r / 100
Jittered(delay, r) == (delay * (50 + r \div 2)) \div 100

RandomDraws == {0, 50, 98}

NoException == [type |-> "None", attempt |-> -1]

(***************************************************************************)
(* SpecRetry: a wrapped function called once                               *)
(***************************************************************************)
MaxRetries == 2

RetryConfigs ==
    [max_retries : -1..MaxRetries, base_delay : {1, 2}, max_delay : {3, 60},
     exponential_base : {2, 3}, jitter : BOOLEAN,
     exceptions : {{"Exception"}, {"ConnectionError"}}]

\* what a call of func ends with
FuncEndings == {"return", "ConnectionError", "ValueError", "KeyboardInterrupt"}

RetryInit ==
    /\ rt_cfg \in RetryConfigs
    /\ rt_pc = "try"
    /\ attempt = 0
    /\ last_exception = NoException
    /\ rt_calls = <<>>
    /\ rt_sleeps = <<>>
    /\ rt_out = <<>>
    /\ BaseIdle
    /\ ExtIdle
    /\ IndIdle
    /\ DriverIdle
    /\ LimiterIdle

\* one pass of the loop up to the sleep: func returns, or raises an
\* exception that is not caught, or one that is caught on the last attempt
\* (raise) or on an earlier one (the delay is computed)
RetryAttempt ==
    /\ rt_pc = "try"
    /\ attempt <= rt_cfg.max_retries
    /\ \E ending \in FuncEndings :
        /\ rt_calls' = Append(rt_calls, ending)
        /\ IF ending = "return"
           THEN /\ rt_out' = [kind |-> "returned", attempt |-> attempt]
                /\ rt_pc' = "done"
                /\ UNCHANGED last_exception
           ELSE IF ~IsInstance(ending, rt_cfg.exceptions)
           THEN /\ rt_out' = [kind |-> "raised", type |-> ending, attempt |-> attempt]
                /\ rt_pc' = "done"
                /\ UNCHANGED last_exception
           ELSE /\ last_exception' = [type |-> ending, attempt |-> attempt]
                /\ IF attempt = rt_cfg.max_retries
                   THEN /\ rt_out' = [kind |-> "raised", type |-> ending,
                                      attempt |-> attempt]
                        /\ rt_pc' = "done"
                   ELSE /\ rt_out' = rt_out
                        /\ rt_pc' = "sleep"
    /\ UNCHANGED <<rt_cfg, attempt, rt_sleeps>>
    /\ UNCHANGED notRetry

\* the delay, the jitter, time.sleep(delay), and the next value of attempt
RetrySleep ==
    /\ rt_pc = "sleep"
    /\ \E r \in RandomDraws :
           rt_sleeps' = Append(rt_sleeps,
               IF rt_cfg.jitter THEN Jittered(BackoffDelay(rt_cfg, attempt), r)
               ELSE BackoffDelay(rt_cfg, attempt))
    /\ attempt' = attempt + 1
    /\ rt_pc' = "try"
    /\ UNCHANGED <<rt_cfg, last_exception, rt_calls, rt_out>>
    /\ UNCHANGED notRetry

\* the loop ran out (max_retries below 0): 'raise last_exception', which is
\* a TypeError when last_exception is None
RetryLoopEnds ==
    /\ rt_pc = "try"
    /\ attempt > rt_cfg.max_retries
    /\ rt_out' = IF last_exception = NoException
                 THEN [kind |-> "raised", type |-> "TypeError", attempt |-> -1]
                 ELSE [kind |-> "raised", type |-> last_exception.type,
                       attempt |-> last_exception.attempt]
    /\ rt_pc' = "done"
    /\ UNCHANGED <<rt_cfg, attempt, last_exception, rt_calls, rt_sleeps>>
    /\ UNCHANGED notRetry

RetryNext == RetryAttempt \/ RetrySleep \/ RetryLoopEnds

SpecRetry == RetryInit /\ [][RetryNext]_vars

\* func returns and time.sleep ends, so a step of the wrapper that can be
\* taken is taken
SpecRetryLive == SpecRetry /\ WF_vars(RetryNext)

RetryStarted == rt_pc # "off"

\* what holds throughout a wrapper call with max_retries = n
RetrySafe ==
    RetryStarted =>
        /\ Len(rt_calls) <= rt_cfg.max_retries + 1
        /\ Len(rt_sleeps) <= Max(0, rt_cfg.max_retries)
        /\ \A k \in DOMAIN rt_sleeps :
              /\ rt_sleeps[k] >= 0
              /\ rt_sleeps[k]
                    <= 100 * Min(rt_cfg.base_delay * Power(rt_cfg.exponential_base, k - 1),
                                 rt_cfg.max_delay)
              /\ rt_calls[k] # "return"
              /\ IsInstance(rt_calls[k], rt_cfg.exceptions)
        /\ (rt_pc = "done" /\ rt_cfg.max_retries >= 0) =>
              /\ rt_out.attempt = Len(rt_calls) - 1
              /\ Len(rt_sleeps) = Len(rt_calls) - 1
              /\ rt_out.kind = "returned" <=> rt_calls[Len(rt_calls)] = "return"
              /\ rt_out.kind = "raised" =>
                    /\ rt_out.type = rt_calls[Len(rt_calls)]
                    /\ IsInstance(rt_out.type, rt_cfg.exceptions)
                          => Len(rt_calls) = rt_cfg.max_retries + 1

\* C26: func is called at most n+1 times; a sleep is taken only after a
\* caught exception and before retry k is at most min(base_delay *
\* exponential_base^k, max_delay); the wrapper ends with the result of the
\* first successful attempt (no attempt after it), with the exception of
\* attempt n+1 when all attempts raise a listed exception, or at once with
\* an exception that is not listed; and every wrapper call ends
C26_BoundedRetry == []RetrySafe /\ <>(rt_pc = "done")

\* C26 witness: n = 2, two caught failures with capped, jittered sleeps,
\* and the third attempt raising the exception the wrapper ends with
C26_Witness ==
    /\ rt_pc = "done"
    /\ rt_cfg.max_retries = 2
    /\ rt_cfg.jitter
    /\ rt_calls = <<"ConnectionError", "ConnectionError", "ConnectionError">>
    /\ Len(rt_sleeps) = 2
    /\ rt_sleeps[2] < 100 * rt_cfg.base_delay * rt_cfg.exponential_base
    /\ rt_out = [kind |-> "raised", type |-> "ConnectionError", attempt |-> 2]

(***************************************************************************)
(* C28: the grade and the stored composite_score (SpecGrade)               *)
(***************************************************************************)
\* C28: the grade returned with a composite_score is the band of that
\* rounded composite_score (kept in tenths) among the thresholds
\* 40/50/60/70/80
C28_GradeOfStoredScore ==
    g_out # NoResult =>
        GradeRank(g_out.grade) =
            Cardinality({t \in GradeThresholds : g_out.composite_score >= 10 * t})

(***************************************************************************)
(* core/utils.py: RateLimiter                                              *)
(* Time is in ticks of a clock that does not run backwards; time.time()    *)
(* reads rl_clock.  time.sleep(d) ends d ticks later or one tick after     *)
(* that.  One caller: a wait_if_needed call begins after the one before    *)
(* it returned.                                                            *)
(***************************************************************************)
\* the prune keeping a call that is exactly one period old
Prune_inclusive(call_times, t, period) ==
    LET Recent(call_time) == t - call_time <= period
    IN SelectSeq(call_times, Recent)

\* [call_time for call_time in self.calls if t - call_time < self.period]
Prune(call_times, t, period) ==
    LET Recent(call_time) == t - call_time < period
    IN SelectSeq(call_times, Recent)

\* self.period - (now - self.calls[0])
sleep_time(call_times, t, period) == period - (t - call_times[1])

(***************************************************************************)
(* SpecLimiter: one RateLimiter and one caller                             *)
(***************************************************************************)
MaxClock == 6

MaxCalls == 3

LimiterConfigs == [max_calls : 1..MaxCalls, period : {2, 3}]

LimiterInit ==
    /\ rl_cfg \in LimiterConfigs
    /\ rl_clock = 0
    /\ rl_calls = <<>>
    /\ rl_pc = "idle"
    /\ rl_now = 0
    /\ rl_admitted = <<>>
    /\ rl_slept = 0
    /\ BaseIdle
    /\ ExtIdle
    /\ IndIdle
    /\ DriverIdle
    /\ RetryIdle

\* time passes while the caller is not asleep
LimiterTick ==
    /\ rl_pc \in {"idle", "record"}
    /\ rl_clock < MaxClock
    /\ rl_clock' = rl_clock + 1
    /\ UNCHANGED <<rl_cfg, rl_calls, rl_pc, rl_now, rl_admitted, rl_slept>>
    /\ UNCHANGED notLimiter

\* wait_if_needed up to time.sleep: now, the prune, the test of the length
LimiterEnter ==
    /\ rl_pc = "idle"
    /\ rl_clock <= MaxClock
    /\ rl_now' = rl_clock
    /\ rl_calls' = Prune(rl_calls, rl_clock, rl_cfg.period)
    /\ IF Len(rl_calls') >= rl_cfg.max_calls
          /\ sleep_time(rl_calls', rl_clock, rl_cfg.period) > 0
       THEN /\ rl_slept' = sleep_time(rl_calls', rl_clock, rl_cfg.period)
            /\ rl_pc' = "sleep"
       ELSE /\ rl_slept' = 0
            /\ rl_pc' = "record"
    /\ UNCHANGED <<rl_cfg, rl_clock, rl_admitted>>
    /\ UNCHANGED notLimiter

\* time.sleep returns, and the prune after it
LimiterWake ==
    /\ rl_pc = "sleep"
    /\ \E late \in {0, 1} : rl_clock' = rl_clock + rl_slept + late
    /\ rl_calls' = Prune(rl_calls, rl_clock', rl_cfg.period)
    /\ rl_pc' = "record"
    /\ UNCHANGED <<rl_cfg, rl_now, rl_admitted, rl_slept>>
    /\ UNCHANGED notLimiter

\* self.calls.append(time.time()), and the return
LimiterRecord ==
    /\ rl_pc = "record"
    /\ rl_calls' = Append(rl_calls, rl_clock)
    /\ rl_admitted' = Append(rl_admitted, rl_clock)
    /\ rl_pc' = "idle"
    /\ UNCHANGED <<rl_cfg, rl_clock, rl_now, rl_slept>>
    /\ UNCHANGED notLimiter

LimiterNext == LimiterTick \/ LimiterEnter \/ LimiterWake \/ LimiterRecord

SpecLimiter == LimiterInit /\ [][LimiterNext]_vars

LimiterOn == rl_pc # "off"

\* the admitted calls in the window [t, t + period)
AdmittedFrom(t) ==
    {k \in DOMAIN rl_admitted : t <= rl_admitted[k] /\ rl_admitted[k] < t + rl_cfg.period}

\* C29: after each call at most max_calls call times are recorded; no
\* window [t, t + period) holds more than max_calls admitted calls (it is
\* enough to look at the windows that begin with an admitted call); and a
\* call sleeps once at most, for no more than one period
C29_SlidingWindow ==
    LimiterOn =>
        /\ rl_pc = "idle" => Len(rl_calls) <= rl_cfg.max_calls
        /\ \A k \in DOMAIN rl_admitted :
              Cardinality(AdmittedFrom(rl_admitted[k])) <= rl_cfg.max_calls
        /\ rl_slept >= 0
        /\ rl_slept <= rl_cfg.period

\* C29 witness: with max_calls = 2 two calls were admitted at once, the
\* third slept a whole period and was admitted when the window had passed
C29_Witness ==
    /\ LimiterOn
    /\ rl_pc = "idle"
    /\ rl_cfg.max_calls = 2
    /\ Len(rl_admitted) = 3
    /\ rl_admitted[1] = rl_admitted[2]
    /\ rl_slept = rl_cfg.period
    /\ rl_admitted[3] = rl_admitted[1] + rl_cfg.period
    /\ Len(rl_calls) = 1

(***************************************************************************)
(* C30: the name of a composite record (SpecScreen)                        *)
(***************************************************************************)
\* C30: every record has a non-empty name: the company name of the analyst
\* source when the fetch succeeded, the name of the ticker's volume row
\* when it failed
C30_NameNeverEmpty ==
    \A i \in DOMAIN results :
        /\ results[i].name # ""
        /\ \A k \in DOMAIN fetch_log :
              fetch_log[k].ticker = results[i].ticker =>
                  IF fetch_log[k].analyst.raises
                  THEN \A r \in RowsOf(results[i].ticker) :
                           results[i].name = filtered[r].name
                  ELSE results[i].name =
                           CompanyName(fetch_log[k].analyst, results[i].ticker)

====
